---- MODULE Spec2Model ----
(***************************************************************************)
(* StudyRAG: document indexing and retrieval.                              *)
(*                                                                         *)
(* The model follows backend/rag_pipeline.py (RAGPipeline), backend/       *)
(* embedding_service.py (EmbeddingService) and backend/retrieval_service.py*)
(* (RetrievalService).  Texts are sequences of one-character strings,      *)
(* embedding vectors are sequences of integers, the vector store is the    *)
(* FAISS flat L2 index together with its document store.                   *)
(***************************************************************************)
EXTENDS Integers, Sequences, FiniteSets, TLC

VARIABLES
    use_mock,       \* EmbeddingService.use_mock
    mock_dim,       \* EmbeddingService.mock_dim
    vectorstore,    \* RAGPipeline.vectorstore (None or a store)
    disk,           \* VECTORSTORE_DIR: collection name -> saved files or NoDir
    saved,          \* collection name -> the store save_local was called on
    origin,         \* which build or load made the current store current
    history,        \* the last save: its name, the file whose save it replaced
    last,           \* the outcome of the last operation of the pipeline
    embedLog,       \* the embedding calls made so far (embedding service runs)
    wiring,         \* the service objects and who refers to which (startup runs)
    threads,        \* the requests in progress (runs with requests in threads)
    probe           \* a text and what the splitter made of it (splitter runs)

vars == <<use_mock, mock_dim, vectorstore, disk, saved, origin, history, last,
          embedLog, wiring, threads, probe>>

\* What the runs of the pipeline's operations leave alone.
others == <<wiring, threads, probe>>

(***************************************************************************)
(* Configuration (backend/config.py) and bounds.                           *)
(***************************************************************************)
\* CHUNK_SIZE and CHUNK_OVERLAP are read from the environment (defaults 1000
\* and 200); the model runs the splitter configured with 4 and 1, in the
\* same proportion to the page texts below.
CHUNK_SIZE == 4
CHUNK_OVERLAP == 1
TOP_K_RESULTS == 4

\* Dimension of the vectors the remote embedding model returns (768 for
\* models/embedding-001); MOCK_EMBEDDING_DIM (default 256) is configured to
\* it or below it.
RealDim == 3
\* Longest log of embedding calls kept by the embedding service runs.
MaxCalls == 3

\* None in a string field.
None == "None"
\* RAGPipeline.vectorstore = NoStore: no store in the slot.
NoStore == [empty |-> TRUE]
\* No directory of that name under VECTORSTORE_DIR.
NoDir == [absent |-> TRUE]

SP == " "
NL == "\n"

Whitespace == {SP, NL}

\* RecursiveCharacterTextSplitter(separators=["\n\n", "\n", " ", ""])
separators == << <<NL, NL>>, <<NL>>, <<SP>>, <<>> >>

(***************************************************************************)
(* Text helpers: str.strip, re.split, str.join.                            *)
(***************************************************************************)
RECURSIVE LStrip(_)
LStrip(s) ==
    IF s # <<>> /\ Head(s) \in Whitespace THEN LStrip(Tail(s)) ELSE s

RECURSIVE RStrip(_)
RStrip(s) ==
    IF s # <<>> /\ s[Len(s)] \in Whitespace
    THEN RStrip(SubSeq(s, 1, Len(s) - 1))
    ELSE s

Strip(s) == RStrip(LStrip(s))

MatchAt(text, i, sep) ==
    /\ i + Len(sep) - 1 <= Len(text)
    /\ \A j \in 1..Len(sep) : text[i + j - 1] = sep[j]

Contains(text, sep) == \E i \in 1..Len(text) : MatchAt(text, i, sep)

\* re.split(f"({sep})", text) with every separator glued to the front of the
\* piece that follows it (keep_separator=True).
RECURSIVE SplitKeep(_, _, _, _, _)
SplitKeep(text, sep, i, cur, acc) ==
    IF i > Len(text) THEN Append(acc, cur)
    ELSE IF MatchAt(text, i, sep)
         THEN SplitKeep(text, sep, i + Len(sep), sep, Append(acc, cur))
         ELSE SplitKeep(text, sep, i + 1, Append(cur, text[i]), acc)

split_text_with_regex(text, sep) ==
    LET raw == IF sep = <<>>
               THEN [i \in 1..Len(text) |-> <<text[i]>>]
               ELSE SplitKeep(text, sep, 1, <<>>, <<>>)
    IN  SelectSeq(raw, LAMBDA s : s # <<>>)

RECURSIVE Join(_)
Join(parts) == IF parts = <<>> THEN <<>> ELSE Head(parts) \o Join(Tail(parts))

\* A _join_docs that keeps the whitespace around the joined text.
join_docs_unstripped(parts) == Join(parts)

\* _join_docs with separator "" and strip_whitespace=True: None for "".
join_docs(parts) == Strip(Join(parts))

(***************************************************************************)
(* TextSplitter._merge_splits (separator "", so separator_len = 0).        *)
(***************************************************************************)
\* The inner while loop: drop pieces from the front of current_doc.
RECURSIVE Shrink(_, _, _)
Shrink(cur, total, len) ==
    IF total > CHUNK_OVERLAP \/ (total + len > CHUNK_SIZE /\ total > 0)
    THEN Shrink(Tail(cur), total - Len(Head(cur)), len)
    ELSE [cur |-> cur, total |-> total]

\* A merge that forgets the pieces still pending when the splits run out.
RECURSIVE MergeFromNoFlush(_, _, _, _, _)
MergeFromNoFlush(splits, i, docs, cur, total) ==
    IF i > Len(splits)
    THEN docs
    ELSE LET d == splits[i]
             len == Len(d)
         IN  IF total + len > CHUNK_SIZE /\ Len(cur) > 0
             THEN LET docs1 == IF join_docs(cur) = <<>> THEN docs
                               ELSE Append(docs, join_docs(cur))
                      sh == Shrink(cur, total, len)
                  IN  MergeFromNoFlush(splits, i + 1, docs1, Append(sh.cur, d),
                                       sh.total + len)
             ELSE MergeFromNoFlush(splits, i + 1, docs, Append(cur, d),
                                   total + len)

RECURSIVE MergeFrom(_, _, _, _, _)
MergeFrom(splits, i, docs, cur, total) ==
    IF i > Len(splits)
    THEN IF join_docs(cur) = <<>> THEN docs ELSE Append(docs, join_docs(cur))
    ELSE LET d == splits[i]
             len == Len(d)
         IN  IF total + len > CHUNK_SIZE /\ Len(cur) > 0
             THEN LET docs1 == IF join_docs(cur) = <<>> THEN docs
                               ELSE Append(docs, join_docs(cur))
                      sh == Shrink(cur, total, len)
                  IN  MergeFrom(splits, i + 1, docs1, Append(sh.cur, d),
                                sh.total + len)
             ELSE MergeFrom(splits, i + 1, docs, Append(cur, d), total + len)

merge_splits(splits) == MergeFrom(splits, 1, <<>>, <<>>, 0)

(***************************************************************************)
(* RecursiveCharacterTextSplitter._split_text                              *)
(***************************************************************************)
\* Index in seps of the separator to split on: the first that is "" or
\* occurs in the text, else the last one.
PickSeparator(text, seps) ==
    IF \E i \in 1..Len(seps) : seps[i] = <<>> \/ Contains(text, seps[i])
    THEN CHOOSE i \in 1..Len(seps) :
            /\ seps[i] = <<>> \/ Contains(text, seps[i])
            /\ \A j \in 1..(i - 1) : ~(seps[j] = <<>> \/ Contains(text, seps[j]))
    ELSE Len(seps)

\* A loop that keeps a piece of the chunk size or longer as it is, without
\* splitting it on the separators that remain.
RECURSIVE SplitLoopFlat(_, _, _, _, _)
SplitLoopFlat(splits, i, good, final, newSeps) ==
    IF i > Len(splits)
    THEN IF good # <<>> THEN final \o merge_splits(good) ELSE final
    ELSE IF Len(splits[i]) < CHUNK_SIZE
         THEN SplitLoopFlat(splits, i + 1, Append(good, splits[i]), final,
                            newSeps)
         ELSE SplitLoopFlat(splits, i + 1, <<>>,
                            (IF good # <<>> THEN final \o merge_splits(good)
                             ELSE final) \o <<splits[i]>>,
                            newSeps)

RECURSIVE split_text(_, _)
RECURSIVE SplitLoop(_, _, _, _, _)

\* The for loop over splits: good collects the pieces shorter than the chunk
\* size, final the chunks produced so far.
SplitLoop(splits, i, good, final, newSeps) ==
    IF i > Len(splits)
    THEN IF good # <<>> THEN final \o merge_splits(good) ELSE final
    ELSE LET s == splits[i]
         IN  IF Len(s) < CHUNK_SIZE
             THEN SplitLoop(splits, i + 1, Append(good, s), final, newSeps)
             ELSE LET flushed == IF good # <<>>
                                 THEN final \o merge_splits(good)
                                 ELSE final
                      more == IF newSeps = <<>> THEN <<s>>
                              ELSE split_text(s, newSeps)
                  IN  SplitLoop(splits, i + 1, <<>>, flushed \o more, newSeps)

split_text(text, seps) ==
    LET p == PickSeparator(text, seps)
        sep == seps[p]
        newSeps == IF sep = <<>> \/ ~Contains(text, sep) THEN <<>>
                   ELSE SubSeq(seps, p + 1, Len(seps))
    IN  SplitLoop(split_text_with_regex(text, sep), 1, <<>>, <<>>, newSeps)

\* A chunk_documents that splits the text of all the pages as one text, the
\* chunks tagged with the first page.
chunk_documents_joined(documents) ==
    IF documents = <<>> THEN <<>>
    ELSE LET texts == split_text(Join([i \in 1..Len(documents) |->
                                         documents[i].page_content]),
                                 separators)
         IN  [i \in 1..Len(texts) |->
                 [page_content |-> texts[i], source |-> documents[1].source,
                  page |-> documents[1].page]]

\* RAGPipeline.chunk_documents: split_documents over the pages, every chunk
\* inheriting the metadata of its page.
RECURSIVE chunk_documents(_)
chunk_documents(documents) ==
    IF documents = <<>> THEN <<>>
    ELSE LET doc == Head(documents)
             texts == split_text(doc.page_content, separators)
         IN  [i \in 1..Len(texts) |->
                 [page_content |-> texts[i], source |-> doc.source,
                  page |-> doc.page]]
             \o chunk_documents(Tail(documents))

(***************************************************************************)
(* EmbeddingService (backend/embedding_service.py).                        *)
(***************************************************************************)
Alphabet == <<"a", "b", "c", "d", "e", "f", "g", "h", SP, NL>>

Code(c) == CHOOSE i \in 1..Len(Alphabet) : Alphabet[i] = c

\* int.from_bytes(hashlib.sha256(text.encode("utf-8")).digest()[:8], "big")
RECURSIVE Digest(_)
Digest(text) ==
    IF text = <<>> THEN 7
    ELSE (Digest(SubSeq(text, 1, Len(text) - 1)) * 11 + Code(text[Len(text)])) % 997

\* The i-th draw rng.uniform(-1.0, 1.0) of random.Random(seed).
Uniform(seed, i) == ((seed * (i + 2) + i * i) % 5) - 2

\* What the remote call may do: return a vector, raise a GoogleAPIError
\* (quota), or raise any other exception.
RemoteOutcomes == {"ok", "GoogleAPIError", "Exception"}

\* genai.embed_content(model, content, task_type)["embedding"]
RemoteEmbedding(text, task_type) ==
    [i \in 1..RealDim |->
        ((Digest(text) * 3 + i * 2
          + (IF task_type = "retrieval_query" THEN 1 ELSE 0)) % 7) - 3]

\* A fallback that draws from a generator shared by all calls, so that what it
\* returns depends on the calls made before.
mock_embedding_shared_rng(text) ==
    [i \in 1..mock_dim |-> Uniform(Digest(text) + Len(embedLog), i)]

\* EmbeddingService._mock_embedding
mock_embedding(text) ==
    [i \in 1..mock_dim |-> Uniform(Digest(text), i)]

\* What one call of the service gave: the vector returned or the exception
\* raised, and the task types of the remote requests (genai.embed_content)
\* the call issued.
Returned(vec, fallback) ==
    [raised |-> FALSE, vec |-> vec, fallback |-> fallback, exc |-> None,
     requests |-> <<>>]
Raised(exc) ==
    [raised |-> TRUE, vec |-> <<>>, fallback |-> FALSE, exc |-> exc,
     requests |-> <<>>]
Requesting(task_types, result) == [result EXCEPT !.requests = task_types]

\* embed_text with a handler for GoogleAPIError only.
embed_text_api_errors_only(text, outcome) ==
    IF use_mock THEN Returned(mock_embedding(text), TRUE)
    ELSE Requesting(<<"retrieval_document">>,
           CASE outcome = "ok" ->
                Returned(RemoteEmbedding(text, "retrieval_document"), FALSE)
             [] outcome = "GoogleAPIError" ->
                Returned(mock_embedding(text), TRUE)
             [] OTHER -> Raised(outcome))

\* embed_text issuing the request a second time before it falls back.
embed_text_retrying(text, outcome) ==
    IF use_mock THEN Returned(mock_embedding(text), TRUE)
    ELSE CASE outcome = "ok" ->
                Requesting(<<"retrieval_document">>,
                    Returned(RemoteEmbedding(text, "retrieval_document"), FALSE))
           [] OTHER ->
                Requesting(<<"retrieval_document", "retrieval_document">>,
                    Returned(mock_embedding(text), TRUE))

\* embed_text asking for a query embedding.
embed_text_query_intent(text, outcome) ==
    IF use_mock THEN Returned(mock_embedding(text), TRUE)
    ELSE Requesting(<<"retrieval_query">>,
           CASE outcome = "ok" ->
                Returned(RemoteEmbedding(text, "retrieval_query"), FALSE)
             [] OTHER ->
                Returned(mock_embedding(text), TRUE))

\* EmbeddingService.embed_text
embed_text(text, outcome) ==
    IF use_mock THEN Returned(mock_embedding(text), TRUE)
    ELSE Requesting(<<"retrieval_document">>,
           CASE outcome = "ok" ->
                Returned(RemoteEmbedding(text, "retrieval_document"), FALSE)
             [] outcome = "GoogleAPIError" ->
                Returned(mock_embedding(text), TRUE)
             [] OTHER ->
                Returned(mock_embedding(text), TRUE))

\* embed_query falling back to a vector of zeros of the model's dimension.
embed_query_zero_fallback(query, outcome) ==
    IF use_mock THEN Returned(mock_embedding(query), TRUE)
    ELSE Requesting(<<"retrieval_query">>,
           CASE outcome = "ok" ->
                Returned(RemoteEmbedding(query, "retrieval_query"), FALSE)
             [] OTHER ->
                Returned([i \in 1..RealDim |-> 0], TRUE))

\* EmbeddingService.embed_query
embed_query(query, outcome) ==
    IF use_mock THEN Returned(mock_embedding(query), TRUE)
    ELSE Requesting(<<"retrieval_query">>,
           CASE outcome = "ok" ->
                Returned(RemoteEmbedding(query, "retrieval_query"), FALSE)
             [] outcome = "GoogleAPIError" ->
                Returned(mock_embedding(query), TRUE)
             [] OTHER ->
                Returned(mock_embedding(query), TRUE))

\* An embed_documents that gives up on the service as soon as one text of
\* the batch fails: every text of such a batch gets its fallback vector.
embed_documents_batch_fallback(texts, outcomes) ==
    IF \A i \in 1..Len(texts) : outcomes[i] = "ok"
    THEN [i \in 1..Len(texts) |-> embed_text(texts[i], outcomes[i])]
    ELSE [i \in 1..Len(texts) |-> embed_text(texts[i], "GoogleAPIError")]

\* An embed_documents that returns the vectors last text first.
embed_documents_reversed(texts, outcomes) ==
    [i \in 1..Len(texts) |->
        embed_text(texts[Len(texts) + 1 - i], outcomes[Len(texts) + 1 - i])]

\* EmbeddingService.embed_documents: one embed_text per text, in order.
embed_documents(texts, outcomes) ==
    [i \in 1..Len(texts) |-> embed_text(texts[i], outcomes[i])]

(***************************************************************************)
(* The vector store: FAISS IndexFlatL2 plus the document store, as         *)
(* langchain's FAISS class keeps them.  A store is a record                *)
(*   [d |-> dimension, vectors |-> the index rows, docs |-> the documents] *)
(* where docs[i] is the document of row i.                                 *)
(***************************************************************************)
RECURSIVE SumSq(_, _, _)
SumSq(a, b, i) ==
    IF i > Len(a) THEN 0
    ELSE (a[i] - b[i]) * (a[i] - b[i]) + SumSq(a, b, i + 1)

\* Squared L2 distance, the metric of IndexFlatL2.
L2(a, b) == SumSq(a, b, 1)

\* The row nearest to q among those not in taken (the lower row on a tie).
NearestRow(vectors, q, taken) ==
    CHOOSE i \in (1..Len(vectors)) \ taken :
        \A j \in (1..Len(vectors)) \ taken :
            \/ L2(vectors[i], q) < L2(vectors[j], q)
            \/ L2(vectors[i], q) = L2(vectors[j], q) /\ i <= j

\* index.search(q, k): k labels, nearest first, -1 where the index has no
\* more rows.
RECURSIVE IndexSearch(_, _, _, _)
IndexSearch(vectors, q, taken, k) ==
    IF k = 0 THEN <<>>
    ELSE IF taken = 1..Len(vectors)
         THEN <<-1>> \o IndexSearch(vectors, q, taken, k - 1)
         ELSE LET i == NearestRow(vectors, q, taken)
              IN  <<i>> \o IndexSearch(vectors, q, taken \cup {i}, k - 1)

Range(seq) == {seq[i] : i \in 1..Len(seq)}

PaddingDoc == [page_content |-> <<>>, source |-> "unknown", page |-> -1]

\* A search that keeps the -1 labels as empty documents.
similarity_search_by_vector_padded(store, q, k) ==
    LET labels == IndexSearch(store.vectors, q, {}, k)
    IN  [j \in 1..Len(labels) |->
            IF labels[j] = -1 THEN PaddingDoc ELSE store.docs[labels[j]]]

\* FAISS.similarity_search_by_vector: the documents of the labels found,
\* the -1 labels skipped.
similarity_search_by_vector(store, q, k) ==
    LET labels == IndexSearch(store.vectors, q, {}, k)
        found == SelectSeq(labels, LAMBDA l : l # -1)
    IN  [j \in 1..Len(found) |-> store.docs[found[j]]]

BuildFailed(err) == [ok |-> FALSE, err |-> err, store |-> NoStore]
Built(store) == [ok |-> TRUE, err |-> None, store |-> store]

\* A build that stores the vectors as they come, whatever their lengths.
from_documents_unchecked(chunks, embs) ==
    IF \E i \in 1..Len(embs) : embs[i].raised THEN BuildFailed("Exception")
    ELSE IF embs = <<>> THEN BuildFailed("IndexError")
    ELSE Built([d |-> Len(embs[1].vec),
                vectors |-> [i \in 1..Len(embs) |-> embs[i].vec],
                docs |-> chunks])

\* FAISS.from_documents(chunks, embeddings), given what embed_documents
\* returned: the index takes the dimension of the first vector, and building
\* the float32 matrix fails when the vectors differ in length.
from_documents(chunks, embs) ==
    IF \E i \in 1..Len(embs) : embs[i].raised THEN BuildFailed("Exception")
    ELSE IF embs = <<>> THEN BuildFailed("IndexError")
    ELSE IF \E i \in 1..Len(embs) : Len(embs[i].vec) # Len(embs[1].vec)
         THEN BuildFailed("ValueError")
    ELSE Built([d |-> Len(embs[1].vec),
                vectors |-> [i \in 1..Len(embs) |-> embs[i].vec],
                docs |-> chunks])

RECURSIVE Flatten(_)
Flatten(vectors) ==
    IF vectors = <<>> THEN <<>> ELSE Head(vectors) \o Flatten(Tail(vectors))

\* vectorstore.save_local(path): index.faiss holds the dimension, the row
\* count and the rows one after another; index.pkl holds the documents.
save_local(store) ==
    [faiss |-> [d |-> store.d, ntotal |-> Len(store.vectors),
                codes |-> Flatten(store.vectors)],
     pkl |-> [docs |-> store.docs]]

\* A load that reads one row too few.
load_local_short(files) ==
    [d |-> files.faiss.d,
     vectors |-> [i \in 1..(files.faiss.ntotal - 1) |->
                    SubSeq(files.faiss.codes, (i - 1) * files.faiss.d + 1,
                           i * files.faiss.d)],
     docs |-> files.pkl.docs]

\* FAISS.load_local(path, embeddings)
load_local(files) ==
    [d |-> files.faiss.d,
     vectors |-> [i \in 1..files.faiss.ntotal |->
                    SubSeq(files.faiss.codes, (i - 1) * files.faiss.d + 1,
                           i * files.faiss.d)],
     docs |-> files.pkl.docs]

\* A file of a collection directory that was never written, and one whose
\* write was cut short.
NoFile == [missing |-> TRUE]
Torn == [torn |-> TRUE]

\* The error FAISS.load_local raises on the files of a directory, None when
\* it reads both: faiss.read_index reads index.faiss first, then index.pkl
\* is opened and unpickled.  No check relates the two files.
LoadError(files) ==
    IF files.faiss = NoFile \/ files.faiss = Torn THEN "RuntimeError"
    ELSE IF files.pkl = NoFile THEN "FileNotFoundError"
    ELSE IF files.pkl = Torn THEN "UnpicklingError"
    ELSE None

(***************************************************************************)
(* The inputs: uploaded PDF files, collection names, queries.              *)
(***************************************************************************)
Paths == {"a.pdf", "b.pdf", "blank.pdf", "bad.pdf", "missing.pdf"}

Names == {"default", "notes"}

Queries == { <<"a", "b">>, <<"e">> }

Ks == {1, TOP_K_RESULTS}

\* The files that yield chunks and one collection name, for the runs with
\* requests in threads and the runs with a crash.
CrashPaths == {"a.pdf", "b.pdf"}
CrashNames == {"default"}

\* The page texts PyPDFLoader extracts from each readable file.
PdfPages(path) ==
    CASE path = "a.pdf" -> << <<"a", "b", SP, "c", "d", "e">> >>
      [] path = "b.pdf" -> << <<SP>>, <<"a", "b">> >>
      [] path = "blank.pdf" -> << <<SP, NL>> >>
      [] OTHER -> <<>>

\* RAGPipeline.load_pdf: one document per page, tagged with the file and the
\* 0-based page number.
load_pdf(path) ==
    IF path = "missing.pdf"
    THEN [ok |-> FALSE, err |-> "FileNotFoundError", documents |-> <<>>]
    ELSE IF path = "bad.pdf"
    THEN [ok |-> FALSE, err |-> "PdfReadError", documents |-> <<>>]
    ELSE [ok |-> TRUE, err |-> None,
          documents |-> [i \in 1..Len(PdfPages(path)) |->
                            [page_content |-> PdfPages(path)[i],
                             source |-> path, page |-> i - 1]]]

\* load_pdf followed by chunk_documents, for every path (process_pdf steps 1
\* and 2).
ChunksOf ==
    [path \in Paths |-> chunk_documents(load_pdf(path).documents)]

\* The outcomes of the remote calls of one operation making n embedding
\* calls (none is made in mock mode).
OutcomesFor(n) ==
    IF use_mock THEN {[i \in 1..n |-> "ok"]} ELSE [1..n -> RemoteOutcomes]

MockDims == {RealDim - 1, RealDim}

Idle ==
    [op |-> "init", outcome |-> "ok", path |-> None, name |-> None,
     query |-> <<>>, k |-> 0, results |-> <<>>, fallbacks |-> <<>>,
     num_chunks |-> 0, requests |-> <<>>, produced |-> None]

\* The file a saved collection was built from: the source its documents
\* carry.
SourceOf(files) ==
    IF files = NoDir THEN None
    ELSE IF files.pkl = NoFile \/ files.pkl = Torn THEN None
    ELSE files.pkl.docs[1].source

\* The record of a save under name, in the runs that keep one.
Overwriting(name) ==
    IF history.kept
    THEN [kept |-> TRUE, name |-> name, replaced |-> SourceOf(disk[name])]
    ELSE history

(***************************************************************************)
(* The service objects.  wiring.pipelines holds the vectorstore field of   *)
(* every RAGPipeline constructed, wiring.services the rag_pipeline field   *)
(* of every RetrievalService constructed; an object is referred to by its  *)
(* position, 0 standing for None.  The module globals and the fields of    *)
(* main.py and of the two generators hold such references.                 *)
(***************************************************************************)
NoSight == [by |-> None, gate |-> NoStore, store |-> NoStore, latest |-> NoStore]

\* Before main.py initialises the services.
Fresh ==
    [pipelines |-> <<>>, services |-> <<>>,
     rag_pipeline_global |-> 0, retrieval_service_global |-> 0,
     main_rag_pipeline |-> 0, main_retrieval_service |-> 0,
     plan_retrieval_service |-> 0, quiz_retrieval_service |-> 0,
     step |-> 0, latest |-> NoStore, seen |-> NoSight]

\* A get_rag_pipeline that constructs a RAGPipeline on every call.
get_rag_pipeline_fresh(w) ==
    [w |-> [w EXCEPT !.pipelines = Append(w.pipelines, NoStore),
                     !.rag_pipeline_global = Len(w.pipelines) + 1],
     ref |-> Len(w.pipelines) + 1]

\* get_rag_pipeline(): the wiring after the call, and the reference returned.
get_rag_pipeline(w) ==
    IF w.rag_pipeline_global = 0
    THEN [w |-> [w EXCEPT !.pipelines = Append(w.pipelines, NoStore),
                          !.rag_pipeline_global = Len(w.pipelines) + 1],
          ref |-> Len(w.pipelines) + 1]
    ELSE [w |-> w, ref |-> w.rag_pipeline_global]

\* get_retrieval_service(); RetrievalService.__init__ calls
\* get_rag_pipeline().
get_retrieval_service(w) ==
    IF w.retrieval_service_global = 0
    THEN LET got == get_rag_pipeline(w)
         IN  [w |-> [got.w EXCEPT
                        !.services = Append(got.w.services,
                                            [rag_pipeline |-> got.ref]),
                        !.retrieval_service_global = Len(got.w.services) + 1],
              ref |-> Len(got.w.services) + 1]
    ELSE [w |-> w, ref |-> w.retrieval_service_global]

\* The four statements that initialise the services in main.py, one by one;
\* each generator's __init__ calls get_retrieval_service().
StartupStatements == 4

StartupStep(w) ==
    CASE w.step = 0 ->
            [get_rag_pipeline(w).w EXCEPT
                !.main_rag_pipeline = get_rag_pipeline(w).ref, !.step = 1]
      [] w.step = 1 ->
            [get_retrieval_service(w).w EXCEPT
                !.main_retrieval_service = get_retrieval_service(w).ref,
                !.step = 2]
      [] w.step = 2 ->
            [get_retrieval_service(w).w EXCEPT
                !.plan_retrieval_service = get_retrieval_service(w).ref,
                !.step = 3]
      [] OTHER ->
            [get_retrieval_service(w).w EXCEPT
                !.quiz_retrieval_service = get_retrieval_service(w).ref,
                !.step = 4]

\* The wiring of the running server.
Wired == StartupStep(StartupStep(StartupStep(StartupStep(Fresh))))
NoThreads == [none |-> TRUE]
NoProbe == [none |-> TRUE]

(***************************************************************************)
(* The process after construction: EmbeddingService.__init__ has read the  *)
(* configuration, RAGPipeline.__init__ has set vectorstore to None.        *)
(***************************************************************************)
Init ==
    /\ use_mock \in BOOLEAN
    /\ mock_dim \in MockDims
    /\ vectorstore = NoStore
    /\ disk = [n \in Names |-> NoDir]
    /\ saved = [n \in Names |-> NoStore]
    /\ history = [kept |-> FALSE, name |-> None, replaced |-> None]
    /\ origin = [kind |-> "empty", path |-> None, name |-> None]
    /\ last = Idle
    /\ embedLog = <<>>
    /\ wiring = Wired
    /\ threads = NoThreads
    /\ probe = NoProbe

(***************************************************************************)
(* RAGPipeline.create_vectorstore: build, save, then make current.         *)
(***************************************************************************)
\* A create_vectorstore that adds the chunks to the store already loaded.
create_vectorstore_adding(chunks, name, path, outs) ==
    LET embs == embed_documents([i \in 1..Len(chunks) |-> chunks[i].page_content],
                                outs)
        built == from_documents(chunks, embs)
        merged == IF vectorstore = NoStore \/ ~built.ok
                     \/ (vectorstore # NoStore /\ built.ok
                         /\ vectorstore.d # built.store.d)
                  THEN built.store
                  ELSE [d |-> vectorstore.d,
                        vectors |-> vectorstore.vectors \o built.store.vectors,
                        docs |-> vectorstore.docs \o built.store.docs]
    IN  IF ~built.ok
        THEN /\ last' = [Idle EXCEPT !.op = "process_pdf", !.outcome = built.err,
                                     !.path = path, !.name = name]
             /\ UNCHANGED <<vectorstore, disk, saved, history, origin>>
        ELSE /\ disk' = [disk EXCEPT ![name] = save_local(merged)]
             /\ vectorstore' = merged
             /\ saved' = [saved EXCEPT ![name] = merged]
             /\ history' = Overwriting(name)
             /\ origin' = [kind |-> "build", path |-> path, name |-> name]
             /\ last' = [Idle EXCEPT !.op = "process_pdf", !.path = path,
                                     !.name = name,
                                     !.fallbacks = [i \in 1..Len(embs) |->
                                                       embs[i].fallback],
                                     !.num_chunks = Len(merged.vectors)]

\* A create_vectorstore whose save leaves the files of a directory that
\* exists as they are.
create_vectorstore_keeping(chunks, name, path, outs) ==
    \E embs \in {embed_documents([i \in 1..Len(chunks) |-> chunks[i].page_content],
                                outs)} :
    \E built \in {from_documents(chunks, embs)} :
        IF ~built.ok
        THEN /\ last' = [Idle EXCEPT !.op = "process_pdf", !.outcome = built.err,
                                     !.path = path, !.name = name]
             /\ UNCHANGED <<vectorstore, disk, saved, history, origin>>
        ELSE /\ disk' = IF disk[name] = NoDir
                        THEN [disk EXCEPT ![name] = save_local(built.store)]
                        ELSE disk
             /\ vectorstore' = built.store
             /\ saved' = [saved EXCEPT ![name] = built.store]
             /\ history' = Overwriting(name)
             /\ origin' = [kind |-> "build", path |-> path, name |-> name]
             /\ last' = [Idle EXCEPT !.op = "process_pdf", !.path = path,
                                     !.name = name,
                                     !.fallbacks = [i \in 1..Len(embs) |->
                                                       embs[i].fallback],
                                     !.num_chunks = Len(built.store.vectors)]

\* A create_vectorstore that empties the slot when the build fails.
create_vectorstore_resetting(chunks, name, path, outs) ==
    \E embs \in {embed_documents([i \in 1..Len(chunks) |-> chunks[i].page_content],
                                outs)} :
    \E built \in {from_documents(chunks, embs)} :
        IF ~built.ok
        THEN /\ last' = [Idle EXCEPT !.op = "process_pdf", !.outcome = built.err,
                                     !.path = path, !.name = name]
             /\ vectorstore' = NoStore
             /\ origin' = [kind |-> "empty", path |-> None, name |-> None]
             /\ UNCHANGED <<disk, saved, history>>
        ELSE /\ disk' = [disk EXCEPT ![name] = save_local(built.store)]
             /\ vectorstore' = built.store
             /\ saved' = [saved EXCEPT ![name] = built.store]
             /\ history' = Overwriting(name)
             /\ origin' = [kind |-> "build", path |-> path, name |-> name]
             /\ last' = [Idle EXCEPT !.op = "process_pdf", !.path = path,
                                     !.name = name,
                                     !.fallbacks = [i \in 1..Len(embs) |->
                                                       embs[i].fallback],
                                     !.num_chunks = Len(built.store.vectors)]

create_vectorstore(chunks, name, path, outs) ==
    \E embs \in {embed_documents([i \in 1..Len(chunks) |-> chunks[i].page_content],
                                outs)} :
    \E built \in {from_documents(chunks, embs)} :
        IF ~built.ok
        THEN /\ last' = [Idle EXCEPT !.op = "process_pdf", !.outcome = built.err,
                                     !.path = path, !.name = name,
                                     !.requests = Flatten([i \in 1..Len(embs) |->
                                                       embs[i].requests])]
             /\ UNCHANGED <<vectorstore, disk, saved, history, origin>>
        ELSE /\ disk' = [disk EXCEPT ![name] = save_local(built.store)]
             /\ vectorstore' = built.store
             /\ saved' = [saved EXCEPT ![name] = built.store]
             /\ history' = Overwriting(name)
             /\ origin' = [kind |-> "build", path |-> path, name |-> name]
             /\ last' = [Idle EXCEPT !.op = "process_pdf", !.path = path,
                                     !.name = name,
                                     !.fallbacks = [i \in 1..Len(embs) |->
                                                       embs[i].fallback],
                                     !.num_chunks = Len(built.store.vectors),
                                     !.requests = Flatten([i \in 1..Len(embs) |->
                                                       embs[i].requests])]

\* RAGPipeline.process_pdf, as POST /upload runs it.
ProcessPdf(path, name) ==
    LET loaded == load_pdf(path)
        chunks == ChunksOf[path]
    IN  /\ UNCHANGED <<others, use_mock, mock_dim, embedLog>>
        /\ IF ~loaded.ok
           THEN /\ last' = [Idle EXCEPT !.op = "process_pdf",
                                        !.outcome = loaded.err,
                                        !.path = path, !.name = name]
                /\ UNCHANGED <<vectorstore, disk, saved, history, origin>>
           ELSE \E outs \in OutcomesFor(Len(chunks)) :
                    create_vectorstore(chunks, name, path, outs)

(***************************************************************************)
(* RAGPipeline.load_vectorstore, as POST /load-vectorstore runs it.        *)
(***************************************************************************)
\* A load that empties the slot before it looks for the directory.
LoadVectorstoreClearing(name) ==
    /\ UNCHANGED <<others, use_mock, mock_dim, embedLog, disk, saved, history>>
    /\ IF disk[name] = NoDir
       THEN /\ last' = [Idle EXCEPT !.op = "load_vectorstore",
                                    !.outcome = "FileNotFoundError",
                                    !.name = name]
            /\ vectorstore' = NoStore
            /\ origin' = [kind |-> "empty", path |-> None, name |-> None]
       ELSE IF LoadError(disk[name]) # None
       THEN /\ last' = [Idle EXCEPT !.op = "load_vectorstore",
                                    !.outcome = LoadError(disk[name]),
                                    !.name = name]
            /\ vectorstore' = NoStore
            /\ origin' = [kind |-> "empty", path |-> None, name |-> None]
       ELSE /\ vectorstore' = load_local(disk[name])
            /\ origin' = [kind |-> "load", path |-> None, name |-> name]
            /\ last' = [Idle EXCEPT !.op = "load_vectorstore", !.name = name]

LoadVectorstore(name) ==
    /\ UNCHANGED <<others, use_mock, mock_dim, embedLog, disk, saved, history>>
    /\ IF disk[name] = NoDir
       THEN /\ last' = [Idle EXCEPT !.op = "load_vectorstore",
                                    !.outcome = "FileNotFoundError",
                                    !.name = name]
            /\ UNCHANGED <<vectorstore, origin>>
       ELSE IF LoadError(disk[name]) # None
       THEN /\ last' = [Idle EXCEPT !.op = "load_vectorstore",
                                    !.outcome = LoadError(disk[name]),
                                    !.name = name]
            /\ UNCHANGED <<vectorstore, origin>>
       ELSE /\ vectorstore' = load_local(disk[name])
            /\ origin' = [kind |-> "load", path |-> None, name |-> name]
            /\ last' = [Idle EXCEPT !.op = "load_vectorstore", !.name = name]

(***************************************************************************)
(* RetrievalService.retrieve_documents                                     *)
(***************************************************************************)
\* FAISS.similarity_search(query, k): embed the query, then search; the
\* index refuses a query vector of another dimension, and a label without
\* an entry in index_to_docstore_id is a KeyError.
similarity_search(store, query, k, outcome) ==
    LET emb == embed_query(query, outcome)
    IN  IF emb.raised
        THEN [ok |-> FALSE, err |-> "Exception", docs |-> <<>>,
              fallback |-> FALSE, requests |-> emb.requests]
        ELSE IF Len(emb.vec) # store.d
        THEN [ok |-> FALSE, err |-> "AssertionError", docs |-> <<>>,
              fallback |-> emb.fallback, requests |-> emb.requests]
        ELSE IF \E l \in Range(IndexSearch(store.vectors, emb.vec, {}, k)) :
                   l > Len(store.docs)
        THEN [ok |-> FALSE, err |-> "KeyError", docs |-> <<>>,
              fallback |-> emb.fallback, requests |-> emb.requests]
        ELSE [ok |-> TRUE, err |-> None,
              docs |-> similarity_search_by_vector(store, emb.vec, k),
              fallback |-> emb.fallback, requests |-> emb.requests]

\* A retrieve that searches without looking at the slot first.
retrieve_documents_unguarded(query, k, outcome) ==
    LET store == IF vectorstore = NoStore
                 THEN [d |-> Len(embed_query(query, outcome).vec),
                       vectors |-> <<>>, docs |-> <<>>]
                 ELSE vectorstore
        found == similarity_search(store, query, k, outcome)
    IN  [Idle EXCEPT !.op = "retrieve_documents",
                     !.outcome = IF found.ok THEN "ok" ELSE found.err,
                     !.query = query, !.k = k,
                     !.fallbacks = <<found.fallback>>,
                     !.results = [i \in 1..Len(found.docs) |->
                                    [content |-> found.docs[i].page_content,
                                     source |-> found.docs[i].source,
                                     page |-> found.docs[i].page,
                                     rank |-> i]]]

\* A retrieve that numbers its results from 0.
retrieve_documents_zero_based(query, k, outcome) ==
    IF vectorstore = NoStore
    THEN [Idle EXCEPT !.op = "retrieve_documents", !.outcome = "ValueError",
                      !.query = query, !.k = k]
    ELSE LET found == similarity_search(vectorstore, query, k, outcome)
         IN  [Idle EXCEPT !.op = "retrieve_documents",
                          !.outcome = IF found.ok THEN "ok" ELSE found.err,
                          !.query = query, !.k = k,
                          !.fallbacks = <<found.fallback>>,
                          !.results = [i \in 1..Len(found.docs) |->
                                         [content |-> found.docs[i].page_content,
                                          source |-> found.docs[i].source,
                                          page |-> found.docs[i].page,
                                          rank |-> i - 1]]]

\* What retrieve_documents returns or raises, as a record.
retrieve_documents(query, k, outcome) ==
    IF vectorstore = NoStore
    THEN [Idle EXCEPT !.op = "retrieve_documents", !.outcome = "ValueError",
                      !.query = query, !.k = k]
    ELSE LET found == similarity_search(vectorstore, query, k, outcome)
         IN  [Idle EXCEPT !.op = "retrieve_documents",
                          !.outcome = IF found.ok THEN "ok" ELSE found.err,
                          !.query = query, !.k = k,
                          !.fallbacks = <<found.fallback>>,
                          !.requests = found.requests,
                          !.results = [i \in 1..Len(found.docs) |->
                                         [content |-> found.docs[i].page_content,
                                          source |-> found.docs[i].source,
                                          page |-> found.docs[i].page,
                                          rank |-> i]]]

RetrieveDocuments(query, k) ==
    /\ \E outs \in OutcomesFor(1) :
       \E returned \in {retrieve_documents(query, k, outs[1])} :
           last' = returned
    /\ UNCHANGED <<others, use_mock, mock_dim, embedLog, vectorstore, disk, saved, history, origin>>

\* The server process is stopped and started again: the slot is empty, the
\* saved collections stay on disk.
Restart ==
    /\ vectorstore' = NoStore
    /\ origin' = [kind |-> "empty", path |-> None, name |-> None]
    /\ last' = [Idle EXCEPT !.op = "restart"]
    /\ UNCHANGED <<others, use_mock, mock_dim, embedLog, disk, saved, history>>

(***************************************************************************)
(* The generators: QuizGenerator.generate_quiz and                         *)
(* StudyPlanGenerator.generate_plan, and the endpoints that call them.     *)
(* probe.use_mock_llm is the USE_MOCK_LLM setting both generators read     *)
(* when they are constructed.                                              *)
(***************************************************************************)
\* What the generative model does with the prompt: it answers with JSON, the
\* call fails, or the answer is not JSON.
LlmOutcomes == {"ok", "GoogleAPIError", "JSONDecodeError"}

\* What a generator leaves after a successful retrieval: the mock document
\* in mock mode or when the call of the model failed, the model's document
\* when it answered with JSON, and for an answer that is not JSON the mock
\* quiz or a one-day plan wrapped around the answer.
Produced(llm, wrapped) ==
    IF probe.use_mock_llm THEN "mock"
    ELSE CASE llm = "ok" -> "llm"
           [] llm = "JSONDecodeError" -> wrapped
           [] OTHER -> "mock"

\* A generate_quiz whose mock branch comes before the store check.
generate_quiz_mock_first(query, outcome, llm) ==
    IF probe.use_mock_llm
    THEN [Idle EXCEPT !.op = "generate_quiz", !.query = query,
                      !.produced = "mock"]
    ELSE IF vectorstore = NoStore
    THEN [Idle EXCEPT !.op = "generate_quiz", !.outcome = "ValueError",
                      !.query = query]
    ELSE LET documents == retrieve_documents(query, TOP_K_RESULTS * 2, outcome)
         IN  IF documents.outcome # "ok"
             THEN [documents EXCEPT !.op = "generate_quiz"]
             ELSE [documents EXCEPT !.op = "generate_quiz",
                                    !.produced = Produced(llm, "mock")]

\* QuizGenerator.generate_quiz: the store check, the retrieval of
\* TOP_K_RESULTS * 2 documents, then the mock branch or the model.
generate_quiz(query, outcome, llm) ==
    IF vectorstore = NoStore
    THEN [Idle EXCEPT !.op = "generate_quiz", !.outcome = "ValueError",
                      !.query = query]
    ELSE LET documents == retrieve_documents(query, TOP_K_RESULTS * 2, outcome)
         IN  IF documents.outcome # "ok"
             THEN [documents EXCEPT !.op = "generate_quiz"]
             ELSE [documents EXCEPT !.op = "generate_quiz",
                                    !.produced = Produced(llm, "mock")]

\* StudyPlanGenerator.generate_plan
generate_plan(query, outcome, llm) ==
    IF vectorstore = NoStore
    THEN [Idle EXCEPT !.op = "generate_plan", !.outcome = "ValueError",
                      !.query = query]
    ELSE LET documents == retrieve_documents(query, TOP_K_RESULTS * 2, outcome)
         IN  IF documents.outcome # "ok"
             THEN [documents EXCEPT !.op = "generate_plan"]
             ELSE [documents EXCEPT !.op = "generate_plan",
                                    !.produced = Produced(llm, "wrapped")]

\* An endpoint around a generator: 400 when the slot is empty, 500 for
\* whatever the generator raises.
Endpoint(route, returned) ==
    IF vectorstore = NoStore
    THEN [Idle EXCEPT !.op = route, !.outcome = "HTTP 400",
                      !.query = returned.query]
    ELSE IF returned.outcome # "ok"
    THEN [Idle EXCEPT !.op = route, !.outcome = "HTTP 500",
                      !.query = returned.query, !.k = returned.k,
                      !.requests = returned.requests]
    ELSE [returned EXCEPT !.op = route]

GenerateQuiz(topic) ==
    /\ \E outs \in OutcomesFor(1), llm \in LlmOutcomes :
       \E returned \in {generate_quiz(topic, outs[1], llm)} :
           last' = returned
    /\ UNCHANGED <<others, use_mock, mock_dim, embedLog, vectorstore, disk,
                   saved, history, origin>>

GeneratePlan(focus) ==
    /\ \E outs \in OutcomesFor(1), llm \in LlmOutcomes :
       \E returned \in {generate_plan(focus, outs[1], llm)} :
           last' = returned
    /\ UNCHANGED <<others, use_mock, mock_dim, embedLog, vectorstore, disk,
                   saved, history, origin>>

\* POST /generate-quiz
PostGenerateQuiz(topic) ==
    /\ \E outs \in OutcomesFor(1), llm \in LlmOutcomes :
       \E returned \in {Endpoint("POST /generate-quiz",
                                  generate_quiz(topic, outs[1], llm))} :
           last' = returned
    /\ UNCHANGED <<others, use_mock, mock_dim, embedLog, vectorstore, disk,
                   saved, history, origin>>

\* POST /study-plan
PostStudyPlan(focus) ==
    /\ \E outs \in OutcomesFor(1), llm \in LlmOutcomes :
       \E returned \in {Endpoint("POST /study-plan",
                                  generate_plan(focus, outs[1], llm))} :
           last' = returned
    /\ UNCHANGED <<others, use_mock, mock_dim, embedLog, vectorstore, disk,
                   saved, history, origin>>

InitGen ==
    /\ use_mock \in BOOLEAN
    /\ mock_dim \in MockDims
    /\ vectorstore = NoStore
    /\ disk = [n \in Names |-> NoDir]
    /\ saved = [n \in Names |-> NoStore]
    /\ origin = [kind |-> "empty", path |-> None, name |-> None]
    /\ history = [kept |-> FALSE, name |-> None, replaced |-> None]
    /\ last = Idle
    /\ embedLog = <<>>
    /\ wiring = Wired
    /\ threads = NoThreads
    /\ probe \in {[use_mock_llm |-> b] : b \in BOOLEAN}

NextGen ==
    \/ \E path \in Paths, name \in CrashNames : ProcessPdf(path, name)
    \/ \E name \in CrashNames : LoadVectorstore(name)
    \/ Restart
    \/ \E topic \in Queries : GenerateQuiz(topic)
    \/ \E focus \in Queries : GeneratePlan(focus)
    \/ \E topic \in Queries : PostGenerateQuiz(topic)
    \/ \E focus \in Queries : PostStudyPlan(focus)

SpecGen == InitGen /\ [][NextGen]_vars

Next ==
    \/ \E path \in Paths, name \in Names : ProcessPdf(path, name)
    \/ \E name \in Names : LoadVectorstore(name)
    \/ \E query \in Queries, k \in Ks : RetrieveDocuments(query, k)
    \/ Restart

Spec == Init /\ [][Next]_vars

\* The same runs, keeping the record of what each save replaced.
InitSaves ==
    /\ use_mock \in BOOLEAN
    /\ mock_dim \in MockDims
    /\ vectorstore = NoStore
    /\ disk = [n \in Names |-> NoDir]
    /\ saved = [n \in Names |-> NoStore]
    /\ origin = [kind |-> "empty", path |-> None, name |-> None]
    /\ history = [kept |-> TRUE, name |-> None, replaced |-> None]
    /\ last = Idle
    /\ embedLog = <<>>
    /\ wiring = Wired
    /\ threads = NoThreads
    /\ probe = NoProbe

SpecSaves == InitSaves /\ [][Next]_vars

(***************************************************************************)
(* Requests served by worker threads: every read and every write of        *)
(* RAGPipeline.vectorstore is a step of its own, as are the build, the     *)
(* save and the reading of the files, and the steps of two requests        *)
(* interleave freely.  The event loop of the server runs the handlers one  *)
(* after another, which is one of these interleavings.                     *)
(***************************************************************************)
Workers == {1, 2}

NoRequest ==
    [op |-> None, pc |-> "done", path |-> None, name |-> None, query |-> <<>>,
     k |-> 0, store |-> NoStore, gate |-> NoStore, searched |-> NoStore,
     outcome |-> None, results |-> <<>>]

InitThreads ==
    /\ use_mock \in BOOLEAN
    /\ mock_dim \in MockDims
    /\ vectorstore = NoStore
    /\ disk = [n \in Names |-> NoDir]
    /\ saved = [n \in Names |-> NoStore]
    /\ origin = [kind |-> "empty", path |-> None, name |-> None]
    /\ history = [kept |-> FALSE, name |-> None, replaced |-> None]
    /\ last = Idle
    /\ embedLog = <<>>
    /\ wiring = Wired
    /\ threads = [req |-> [t \in Workers |-> NoRequest]]
    /\ probe = NoProbe

\* What a step of a request leaves alone, apart from the slot and the disk.
rest == <<use_mock, mock_dim, saved, origin, history, last, embedLog, wiring,
          probe>>

At(t, op, pc) == threads.req[t].op = op /\ threads.req[t].pc = pc

\* The request of worker t becomes r.
Becomes(t, r) == threads' = [threads EXCEPT !.req[t] = r]

Finished(t, outcome) ==
    Becomes(t, [threads.req[t] EXCEPT !.pc = "done", !.outcome = outcome])

\* A worker that is free takes a request.
Begin(t) ==
    /\ threads.req[t].pc = "done"
    /\ \/ \E path \in CrashPaths, name \in CrashNames :
              Becomes(t, [NoRequest EXCEPT !.op = "process_pdf", !.pc = "start",
                                           !.path = path, !.name = name])
       \/ \E name \in CrashNames :
              Becomes(t, [NoRequest EXCEPT !.op = "load_vectorstore",
                                           !.pc = "start", !.name = name])
       \/ \E query \in Queries :
              Becomes(t, [NoRequest EXCEPT !.op = "retrieve_documents",
                                           !.pc = "start", !.query = query,
                                           !.k = TOP_K_RESULTS])
    /\ UNCHANGED <<vectorstore, disk, rest>>

\* An ingest that makes the store object current as soon as it exists, before
\* its rows are added.
IngestBuildPublishing(t) ==
    /\ At(t, "process_pdf", "start")
    /\ \E outs \in OutcomesFor(Len(ChunksOf[threads.req[t].path])) :
       \E embs \in {embed_documents(
                        [i \in 1..Len(ChunksOf[threads.req[t].path]) |->
                            ChunksOf[threads.req[t].path][i].page_content],
                        outs)} :
       \E built \in {from_documents(ChunksOf[threads.req[t].path], embs)} :
           IF built.ok
           THEN /\ Becomes(t, [threads.req[t] EXCEPT !.pc = "built",
                                                     !.store = built.store])
                /\ vectorstore' = [built.store EXCEPT !.vectors = <<>>,
                                                      !.docs = <<>>]
           ELSE /\ Finished(t, built.err)
                /\ UNCHANGED vectorstore
    /\ UNCHANGED <<disk, rest>>

\* create_vectorstore, FAISS.from_documents: the store is built in a local
\* variable.
IngestBuild(t) ==
    /\ At(t, "process_pdf", "start")
    /\ \E outs \in OutcomesFor(Len(ChunksOf[threads.req[t].path])) :
       \E embs \in {embed_documents(
                        [i \in 1..Len(ChunksOf[threads.req[t].path]) |->
                            ChunksOf[threads.req[t].path][i].page_content],
                        outs)} :
       \E built \in {from_documents(ChunksOf[threads.req[t].path], embs)} :
           IF built.ok
           THEN Becomes(t, [threads.req[t] EXCEPT !.pc = "built",
                                                  !.store = built.store])
           ELSE Finished(t, built.err)
    /\ UNCHANGED <<vectorstore, disk, rest>>

\* vectorstore.save_local(save_path)
IngestSave(t) ==
    /\ At(t, "process_pdf", "built")
    /\ disk' = [disk EXCEPT
                   ![threads.req[t].name] = save_local(threads.req[t].store)]
    /\ Becomes(t, [threads.req[t] EXCEPT !.pc = "saved"])
    /\ UNCHANGED <<vectorstore, rest>>

\* self.vectorstore = vectorstore
IngestAssign(t) ==
    /\ At(t, "process_pdf", "saved")
    /\ vectorstore' = threads.req[t].store
    /\ Finished(t, "ok")
    /\ UNCHANGED <<disk, rest>>

\* load_vectorstore: the directory is looked for, ...
LoadCheck(t) ==
    /\ At(t, "load_vectorstore", "start")
    /\ IF disk[threads.req[t].name] = NoDir
       THEN Finished(t, "FileNotFoundError")
       ELSE Becomes(t, [threads.req[t] EXCEPT !.pc = "exists"])
    /\ UNCHANGED <<vectorstore, disk, rest>>

\* ... and FAISS.load_local reads its files into a local variable.
LoadRead(t) ==
    /\ At(t, "load_vectorstore", "exists")
    /\ IF LoadError(disk[threads.req[t].name]) # None
       THEN Finished(t, LoadError(disk[threads.req[t].name]))
       ELSE Becomes(t, [threads.req[t] EXCEPT
                          !.pc = "loaded",
                          !.store = load_local(disk[threads.req[t].name])])
    /\ UNCHANGED <<vectorstore, disk, rest>>

\* self.vectorstore = vectorstore
LoadAssign(t) ==
    /\ At(t, "load_vectorstore", "loaded")
    /\ vectorstore' = threads.req[t].store
    /\ Finished(t, "ok")
    /\ UNCHANGED <<disk, rest>>

\* retrieve_documents: if self.rag_pipeline.vectorstore is None: raise
RetrieveCheck(t) ==
    /\ At(t, "retrieve_documents", "start")
    /\ IF vectorstore = NoStore
       THEN Finished(t, "ValueError")
       ELSE Becomes(t, [threads.req[t] EXCEPT !.pc = "checked",
                                              !.gate = vectorstore])
    /\ UNCHANGED <<vectorstore, disk, rest>>

\* self.rag_pipeline.vectorstore.similarity_search(query, k=k): the slot is
\* read again, then the store it holds is searched.
RetrieveSearch(t) ==
    /\ At(t, "retrieve_documents", "checked")
    /\ IF vectorstore = NoStore
       THEN Finished(t, "AttributeError")
       ELSE \E outs \in OutcomesFor(1) :
            \E found \in {similarity_search(vectorstore, threads.req[t].query,
                                            threads.req[t].k, outs[1])} :
               Becomes(t, [threads.req[t] EXCEPT
                             !.pc = "done",
                             !.searched = vectorstore,
                             !.outcome = IF found.ok THEN "ok" ELSE found.err,
                             !.results = [i \in 1..Len(found.docs) |->
                                            [content |-> found.docs[i].page_content,
                                             source |-> found.docs[i].source,
                                             page |-> found.docs[i].page,
                                             rank |-> i]]])
    /\ UNCHANGED <<vectorstore, disk, rest>>

NextThreads ==
    \E t \in Workers :
        \/ Begin(t)
        \/ IngestBuild(t)
        \/ IngestSave(t)
        \/ IngestAssign(t)
        \/ LoadCheck(t)
        \/ LoadRead(t)
        \/ LoadAssign(t)
        \/ RetrieveCheck(t)
        \/ RetrieveSearch(t)

SpecThreads == InitThreads /\ [][NextThreads]_vars

(***************************************************************************)
(* The requests as the server of main.py schedules them.  Every endpoint   *)
(* is an async function without an await, run by the one event loop of     *)
(* uvicorn.run(app): requests may be pending together, and the loop runs   *)
(* the handler of one of them from its first statement to its last before  *)
(* it turns to another.                                                    *)
(***************************************************************************)
Running(t) == threads.req[t].pc \notin {"start", "done"}

\* An event loop that may turn to another handler between the save of an
\* ingest and its assignment, as if the handler awaited there.
ExclusiveYielding(t) ==
    \A u \in Workers \ {t} : ~Running(u) \/ threads.req[u].pc = "saved"

\* The loop is free for the handler of t: no other handler is under way.
Exclusive(t) == \A u \in Workers \ {t} : ~Running(u)

NextLoop ==
    \E t \in Workers :
        \/ Begin(t)
        \/ Exclusive(t) /\ IngestBuild(t)
        \/ Exclusive(t) /\ IngestSave(t)
        \/ Exclusive(t) /\ IngestAssign(t)
        \/ Exclusive(t) /\ LoadCheck(t)
        \/ Exclusive(t) /\ LoadRead(t)
        \/ Exclusive(t) /\ LoadAssign(t)
        \/ Exclusive(t) /\ RetrieveCheck(t)
        \/ Exclusive(t) /\ RetrieveSearch(t)

SpecLoop == InitThreads /\ [][NextLoop]_vars

(***************************************************************************)
(* The same process, when it can also die inside save_local.  save_local   *)
(* writes index.faiss and then index.pkl, both straight into the           *)
(* collection's directory.                                                 *)
(***************************************************************************)
\* Where the process dies: while index.faiss is written, after index.faiss
\* and before index.pkl, or while index.pkl is written.
CrashPoints == {"in index.faiss", "before index.pkl", "in index.pkl"}

\* The directory a save_local of store leaves behind when the process dies
\* at point, old being what the directory held before.
InterruptedSave(old, store, point) ==
    LET oldpkl == IF old = NoDir THEN NoFile ELSE old.pkl
    IN  CASE point = "in index.faiss" -> [faiss |-> Torn, pkl |-> oldpkl]
          [] point = "before index.pkl" ->
                [faiss |-> save_local(store).faiss, pkl |-> oldpkl]
          [] OTHER -> [faiss |-> save_local(store).faiss, pkl |-> Torn]

\* process_pdf builds the store and the process dies in save_local; it is
\* started again with an empty slot.
CrashDuringSave(path, name, point) ==
    /\ load_pdf(path).ok
    /\ \E outs \in OutcomesFor(Len(ChunksOf[path])) :
       \E embs \in {embed_documents([i \in 1..Len(ChunksOf[path]) |->
                                        ChunksOf[path][i].page_content], outs)} :
       \E built \in {from_documents(ChunksOf[path], embs)} :
           /\ built.ok
           /\ disk' = [disk EXCEPT
                          ![name] = InterruptedSave(disk[name], built.store, point)]
    /\ vectorstore' = NoStore
    /\ origin' = [kind |-> "empty", path |-> None, name |-> None]
    /\ last' = [Idle EXCEPT !.op = "crash", !.path = path, !.name = name]
    /\ UNCHANGED <<others, use_mock, mock_dim, embedLog, saved, history>>

\* A failing save that is reached after the store was made current.
SaveFailsPublished(path, name, point) ==
    /\ load_pdf(path).ok
    /\ \E outs \in OutcomesFor(Len(ChunksOf[path])) :
       \E embs \in {embed_documents([i \in 1..Len(ChunksOf[path]) |->
                                        ChunksOf[path][i].page_content], outs)} :
       \E built \in {from_documents(ChunksOf[path], embs)} :
           /\ built.ok
           /\ vectorstore' = built.store
           /\ disk' = [disk EXCEPT
                          ![name] = InterruptedSave(disk[name], built.store, point)]
           /\ last' = [Idle EXCEPT !.op = "process_pdf", !.outcome = "OSError",
                                   !.path = path, !.name = name,
                                   !.requests = Flatten([i \in 1..Len(embs) |->
                                                     embs[i].requests])]
    /\ origin' = [kind |-> "build", path |-> path, name |-> name]
    /\ UNCHANGED <<others, use_mock, mock_dim, embedLog, saved, history>>

\* process_pdf builds the store and save_local raises (the disk is full, the
\* directory is not writable) at point: create_vectorstore is left by the
\* exception before its assignment, the process goes on.
SaveFails(path, name, point) ==
    /\ load_pdf(path).ok
    /\ \E outs \in OutcomesFor(Len(ChunksOf[path])) :
       \E embs \in {embed_documents([i \in 1..Len(ChunksOf[path]) |->
                                        ChunksOf[path][i].page_content], outs)} :
       \E built \in {from_documents(ChunksOf[path], embs)} :
           /\ built.ok
           /\ disk' = [disk EXCEPT
                          ![name] = InterruptedSave(disk[name], built.store, point)]
           /\ last' = [Idle EXCEPT !.op = "process_pdf", !.outcome = "OSError",
                                   !.path = path, !.name = name,
                                   !.requests = Flatten([i \in 1..Len(embs) |->
                                                     embs[i].requests])]
    /\ UNCHANGED <<others, use_mock, mock_dim, embedLog, saved, history,
                   vectorstore, origin>>

(***************************************************************************)
(* The splitter on its own: the pages of a document are drawn,             *)
(* chunk_documents is applied to them.                                     *)
(***************************************************************************)
\* The characters of the page texts: two letters, the space and the newline.
ChunkAlphabet == {"a", "b", SP, NL}

\* Length of the longest text of the first page.
MaxTextLen == 6

PageTexts == UNION {[1..n -> ChunkAlphabet] : n \in 0..MaxTextLen}

\* The pages that follow the first: none, one page of two words, or a blank
\* page and a page of one word.
MorePages ==
    { <<>>,
      << <<"b", SP, "a", "a", "b">> >>,
      << <<SP>>, <<"a", "b">> >> }

\* The documents load_pdf makes of the page texts: page i - 1 of p.pdf.
ProbeDocuments(texts) ==
    [i \in 1..Len(texts) |->
        [page_content |-> texts[i], source |-> "p.pdf", page |-> i - 1]]

InitChunk ==
    /\ use_mock = FALSE
    /\ mock_dim = RealDim
    /\ vectorstore = NoStore
    /\ disk = [n \in Names |-> NoDir]
    /\ saved = [n \in Names |-> NoStore]
    /\ origin = [kind |-> "empty", path |-> None, name |-> None]
    /\ history = [kept |-> FALSE, name |-> None, replaced |-> None]
    /\ last = Idle
    /\ embedLog = <<>>
    /\ wiring = Wired
    /\ threads = NoThreads
    /\ probe \in {[text |-> t, pages |-> <<t>> \o more, done |-> FALSE,
                    chunks |-> <<>>] : t \in PageTexts, more \in MorePages}

\* RAGPipeline.chunk_documents on the pages.
ChunkDocuments ==
    /\ ~probe.done
    /\ probe' = [probe EXCEPT
                    !.done = TRUE,
                    !.chunks = chunk_documents(ProbeDocuments(probe.pages))]
    /\ UNCHANGED <<use_mock, mock_dim, vectorstore, disk, saved, origin, history,
                   last, embedLog, wiring, threads>>

NextChunk == ChunkDocuments

SpecChunk == InitChunk /\ [][NextChunk]_vars

(***************************************************************************)
(* RetrievalService.build_context_from_docs, applied to result lists.      *)
(***************************************************************************)
DigitChars == <<"0", "1", "2", "3", "4", "5", "6", "7", "8", "9">>

\* str() of a non-negative integer, as the f-string renders it.
RECURSIVE Decimal(_)
Decimal(n) ==
    IF n < 10 THEN <<DigitChars[n + 1]>>
    ELSE Decimal(n \div 10) \o <<DigitChars[(n % 10) + 1]>>

KaynakOpen == <<"[", "K", "a", "y", "n", "a", "k", SP>>
SayfaMid == <<SP, "-", SP, "S", "a", "y", "f", "a", SP>>
HeaderClose == <<"]", NL>>

\* The f-string of one result.
context_part(doc) ==
    KaynakOpen \o Decimal(doc.rank) \o SayfaMid \o Decimal(doc.page)
        \o HeaderClose \o doc.content \o <<NL>>

\* sep.join(parts).
RECURSIVE JoinWith(_, _)
JoinWith(sep, parts) ==
    IF parts = <<>> THEN <<>>
    ELSE IF Len(parts) = 1 THEN parts[1]
    ELSE parts[1] \o sep \o JoinWith(sep, Tail(parts))

\* A formatter that lists the results last to first.
build_context_from_docs_reversed(documents) ==
    JoinWith(<<NL>>, [i \in 1..Len(documents) |->
                         context_part(documents[Len(documents) + 1 - i])])

build_context_from_docs(documents) ==
    JoinWith(<<NL>>, [i \in 1..Len(documents) |-> context_part(documents[i])])

MaxResults == 3
ContextContents == { <<"a", "b">>, <<"b", NL, "a">> }
ContextPages == {0, 11}
ContextRanks == {1, 2}
ResultPool ==
    [content : ContextContents, source : {"p.pdf"}, page : ContextPages,
     rank : ContextRanks]
ResultLists == UNION {[1..n -> ResultPool] : n \in 0..MaxResults}

InitContext ==
    /\ use_mock = FALSE
    /\ mock_dim = RealDim
    /\ vectorstore = NoStore
    /\ disk = [n \in Names |-> NoDir]
    /\ saved = [n \in Names |-> NoStore]
    /\ origin = [kind |-> "empty", path |-> None, name |-> None]
    /\ history = [kept |-> FALSE, name |-> None, replaced |-> None]
    /\ last = Idle
    /\ embedLog = <<>>
    /\ wiring = Wired
    /\ threads = NoThreads
    /\ probe \in {[documents |-> d, done |-> FALSE, context |-> <<>>] :
                    d \in ResultLists}

BuildContext ==
    /\ ~probe.done
    /\ probe' = [probe EXCEPT
                    !.done = TRUE,
                    !.context = build_context_from_docs(probe.documents)]
    /\ UNCHANGED <<use_mock, mock_dim, vectorstore, disk, saved, origin, history,
                   last, embedLog, wiring, threads>>

NextContext == BuildContext

SpecContext == InitContext /\ [][NextContext]_vars

(***************************************************************************)
(* The server from the start of main.py: the services are initialised,     *)
(* then requests are served.  Every request reaches the store through the  *)
(* references its code follows.                                            *)
(***************************************************************************)
InitWiring ==
    /\ use_mock \in BOOLEAN
    /\ mock_dim \in MockDims
    /\ vectorstore = NoStore
    /\ disk = [n \in Names |-> NoDir]
    /\ saved = [n \in Names |-> NoStore]
    /\ origin = [kind |-> "empty", path |-> None, name |-> None]
    /\ history = [kept |-> FALSE, name |-> None, replaced |-> None]
    /\ last = Idle
    /\ embedLog = <<>>
    /\ wiring = Fresh
    /\ threads = NoThreads
    /\ probe = NoProbe

Startup ==
    /\ wiring.step < StartupStatements
    /\ wiring' = StartupStep(wiring)
    /\ UNCHANGED <<use_mock, mock_dim, vectorstore, disk, saved, origin, history,
                   last, embedLog, threads, probe>>

\* The pipeline a retrieval service searches.
PipelineOf(service) == wiring.services[service].rag_pipeline

\* POST /upload: rag_pipeline.process_pdf on the pipeline main.py holds.
WiredUpload(path, name) ==
    /\ wiring.step = StartupStatements
    /\ \E outs \in OutcomesFor(Len(ChunksOf[path])) :
       \E embs \in {embed_documents([i \in 1..Len(ChunksOf[path]) |->
                                        ChunksOf[path][i].page_content], outs)} :
       \E built \in {from_documents(ChunksOf[path], embs)} :
           /\ built.ok
           /\ disk' = [disk EXCEPT ![name] = save_local(built.store)]
           /\ wiring' = [wiring EXCEPT
                            !.pipelines[wiring.main_rag_pipeline] = built.store,
                            !.latest = built.store]
    /\ UNCHANGED <<use_mock, mock_dim, vectorstore, saved, origin, history,
                   last, embedLog, threads, probe>>

\* POST /load-vectorstore: retrieval_service.load_vectorstore, which loads
\* into the pipeline the retrieval service holds.
WiredLoad(name) ==
    /\ wiring.step = StartupStatements
    /\ disk[name] # NoDir
    /\ wiring' = [wiring EXCEPT
                     !.pipelines[PipelineOf(wiring.main_retrieval_service)]
                         = load_local(disk[name]),
                     !.latest = load_local(disk[name])]
    /\ UNCHANGED <<use_mock, mock_dim, vectorstore, disk, saved, origin, history,
                   last, embedLog, threads, probe>>

\* The retrieval service a request retrieves through.
ServiceOf(by) ==
    CASE by = "study_plan" -> wiring.plan_retrieval_service
      [] by = "quiz" -> wiring.quiz_retrieval_service
      [] OTHER -> wiring.main_retrieval_service

\* POST /ask, /study-plan, /generate-quiz: the endpoint looks at the slot of
\* the pipeline main.py holds, the retrieve searches the slot of the
\* pipeline its retrieval service holds.
WiredRetrieve(by) ==
    /\ wiring.step = StartupStatements
    /\ wiring' = [wiring EXCEPT
                     !.seen = [by |-> by,
                               gate |-> wiring.pipelines[wiring.main_rag_pipeline],
                               store |-> wiring.pipelines[PipelineOf(ServiceOf(by))],
                               latest |-> wiring.latest]]
    /\ UNCHANGED <<use_mock, mock_dim, vectorstore, disk, saved, origin, history,
                   last, embedLog, threads, probe>>

Requesters == {"ask", "study_plan", "quiz"}

NextWiring ==
    \/ Startup
    \/ \E path \in CrashPaths, name \in Names : WiredUpload(path, name)
    \/ \E name \in Names : WiredLoad(name)
    \/ \E by \in Requesters : WiredRetrieve(by)

SpecWiring == InitWiring /\ [][NextWiring]_vars

NextCrash ==
    \/ \E path \in CrashPaths, name \in CrashNames : ProcessPdf(path, name)
    \/ \E name \in CrashNames : LoadVectorstore(name)
    \/ \E query \in Queries, k \in Ks : RetrieveDocuments(query, k)
    \/ \E path \in CrashPaths, name \in CrashNames, point \in CrashPoints :
           CrashDuringSave(path, name, point)

SpecCrash == Init /\ [][NextCrash]_vars

\* The requests of the server with an ingest failing at any of its steps:
\* the file cannot be read, the build fails, or the save raises.
NextFaults ==
    \/ \E path \in Paths, name \in CrashNames : ProcessPdf(path, name)
    \/ \E name \in CrashNames : LoadVectorstore(name)
    \/ \E query \in Queries, k \in Ks : RetrieveDocuments(query, k)
    \/ \E path \in CrashPaths, name \in CrashNames, point \in CrashPoints :
           SaveFails(path, name, point)

SpecFaults == Init /\ [][NextFaults]_vars

(***************************************************************************)
(* The embedding service on its own: calls of embed_text, embed_query and  *)
(* embed_documents, each remote request succeeding or failing, logged in   *)
(* call order.                                                             *)
(***************************************************************************)
EmbedTexts == { <<"a", "b">>, <<"e">> }

Batches == { <<>>, << <<"a", "b">>, <<"e">> >> }

LogEntry(fn, texts, outs, results) ==
    [fn |-> fn, texts |-> texts, outcomes |-> outs, results |-> results]

CallEmbedText ==
    /\ Len(embedLog) < MaxCalls
    /\ \E text \in EmbedTexts, outs \in OutcomesFor(1) :
           embedLog' = Append(embedLog,
                LogEntry("embed_text", <<text>>, outs,
                         <<embed_text(text, outs[1])>>))
    /\ UNCHANGED <<others, use_mock, mock_dim, vectorstore, disk, saved, history, origin, last>>

CallEmbedQuery ==
    /\ Len(embedLog) < MaxCalls
    /\ \E text \in EmbedTexts, outs \in OutcomesFor(1) :
           embedLog' = Append(embedLog,
                LogEntry("embed_query", <<text>>, outs,
                         <<embed_query(text, outs[1])>>))
    /\ UNCHANGED <<others, use_mock, mock_dim, vectorstore, disk, saved, history, origin, last>>

CallEmbedDocuments ==
    /\ Len(embedLog) < MaxCalls
    /\ \E texts \in Batches :
       \E outs \in OutcomesFor(Len(texts)) :
           embedLog' = Append(embedLog,
                LogEntry("embed_documents", texts, outs,
                         embed_documents(texts, outs)))
    /\ UNCHANGED <<others, use_mock, mock_dim, vectorstore, disk, saved, history, origin, last>>

NextEmbed == CallEmbedText \/ CallEmbedQuery \/ CallEmbedDocuments

SpecEmbed == Init /\ [][NextEmbed]_vars

\* The single embeddings made so far: <<call number, position in the call>>.
EmbedSites ==
    {<<c, i>> \in (1..Len(embedLog)) \X (1..2) : i <= Len(embedLog[c].texts)}

SiteText(s) == embedLog[s[1]].texts[s[2]]
SiteOutcome(s) == embedLog[s[1]].outcomes[s[2]]
SiteResult(s) == embedLog[s[1]].results[s[2]]
\* The remote request of this embedding was made and failed.
SiteFailed(s) == ~use_mock /\ SiteOutcome(s) # "ok"

(***************************************************************************)
(* Properties.                                                             *)
(***************************************************************************)
Min(a, b) == IF a <= b THEN a ELSE b

\* The vector the query of the last retrieve was embedded to.
LastQueryVector ==
    IF last.fallbacks[1] THEN mock_embedding(last.query)
    ELSE RemoteEmbedding(last.query, "retrieval_query")

\* Every query vector of dimension d the embedding service can produce.
QueryVectors(d) ==
    {v \in {mock_embedding(q) : q \in Queries}
           \cup {RemoteEmbedding(q, "retrieval_query") : q \in Queries} :
        Len(v) = d}

\* C1: a retrieve in a process where no ingest and no load has succeeded yet
\* fails with the no-store error (ValueError), whatever the query and k, and
\* returns no results.
C1_RetrieveBeforeStore ==
    (last.op = "retrieve_documents" /\ origin.kind = "empty")
        => (last.outcome = "ValueError" /\ last.results = <<>>)

\* A retrieve was refused in a restarted process although a collection is
\* saved on disk.
C1_Witness ==
    /\ last.op = "retrieve_documents"
    /\ origin.kind = "empty"
    /\ last.outcome = "ValueError"
    /\ disk["default"] # NoDir

\* C2: loading a name with no saved collection fails with the not-found
\* error (FileNotFoundError) and leaves the current-store slot as it was.
C2_LoadMissingKeepsStore ==
    [][(last'.op = "load_vectorstore" /\ disk[last'.name] = NoDir)
          => (/\ last'.outcome = "FileNotFoundError"
              /\ vectorstore' = vectorstore
              /\ origin' = origin)]_vars

\* A load failed with not-found while a store was current, and it still is.
C2_Witness ==
    /\ last.op = "load_vectorstore"
    /\ last.outcome = "FileNotFoundError"
    /\ vectorstore # NoStore
    /\ origin.kind = "build"

\* C3: after a successful ingest the current store holds exactly the chunks
\* of the ingested file, one vector each, and while that store is current
\* every retrieve returns chunks of that file only.
C3_IngestReplacesStore ==
    origin.kind = "build" =>
        /\ vectorstore.docs = ChunksOf[origin.path]
        /\ Len(vectorstore.vectors) = Len(ChunksOf[origin.path])
        /\ (last.op = "retrieve_documents" /\ last.outcome = "ok") =>
              \A i \in 1..Len(last.results) :
                  \E j \in 1..Len(ChunksOf[origin.path]) :
                      /\ last.results[i].content = ChunksOf[origin.path][j].page_content
                      /\ last.results[i].source = origin.path
                      /\ last.results[i].page = ChunksOf[origin.path][j].page

\* b.pdf was ingested after a.pdf had been ingested, and a retrieve returned
\* its chunk.
C3_Witness ==
    /\ origin.kind = "build"
    /\ origin.path = "b.pdf"
    /\ \E n \in Names : saved[n] # NoStore /\ saved[n].docs = ChunksOf["a.pdf"]
    /\ last.op = "retrieve_documents"
    /\ last.outcome = "ok"
    /\ Len(last.results) = 1

\* C4: a store loaded from a name answers every search (every query vector
\* of its dimension, every k) exactly as the store that was saved under that
\* name: same documents in the same order.
C4_SaveLoadRoundTrip ==
    (last.op = "load_vectorstore" /\ last.outcome = "ok") =>
        /\ vectorstore.d = saved[last.name].d
        /\ \A q \in QueryVectors(vectorstore.d), k \in Ks :
               similarity_search_by_vector(vectorstore, q, k)
                   = similarity_search_by_vector(saved[last.name], q, k)

\* A two-chunk collection was loaded in a restarted process.
C4_Witness ==
    /\ last.op = "load_vectorstore"
    /\ last.outcome = "ok"
    /\ Len(vectorstore.vectors) = 2
    /\ \E q \in QueryVectors(vectorstore.d) :
           Len(similarity_search_by_vector(vectorstore, q, TOP_K_RESULTS)) = 2

\* C5: no embedding call of the remote variant raises: when the remote
\* request fails (GoogleAPIError or any other exception) the call returns a
\* vector produced by the fallback.
C5_NoBackendErrorSurfaces ==
    \A s \in EmbedSites :
        /\ ~SiteResult(s).raised
        /\ SiteFailed(s) => (SiteResult(s).fallback /\ SiteResult(s).vec # <<>>)

\* An embed_text and an embed_query call whose remote request raised a
\* non-API exception.
C5_Witness ==
    /\ ~use_mock
    /\ \E s \in EmbedSites :
           embedLog[s[1]].fn = "embed_text" /\ SiteOutcome(s) = "Exception"
    /\ \E s \in EmbedSites :
           embedLog[s[1]].fn = "embed_query" /\ SiteOutcome(s) = "Exception"

\* Whether the operation of `last` succeeds when every remote request does.
HealthySucceeds ==
    CASE last.op = "process_pdf" ->
            /\ load_pdf(last.path).ok
            /\ from_documents(ChunksOf[last.path],
                   embed_documents(
                       [i \in 1..Len(ChunksOf[last.path]) |->
                           ChunksOf[last.path][i].page_content],
                       [i \in 1..Len(ChunksOf[last.path]) |-> "ok"])).ok
      [] last.op = "retrieve_documents" ->
            retrieve_documents(last.query, last.k, "ok").outcome = "ok"
      [] OTHER -> FALSE

\* C6: an ingest or a retrieve that succeeds with a healthy backend also
\* succeeds when any of its remote requests fail and fall back.
C6_FallbackNeverFails ==
    (~use_mock /\ last.op \in {"process_pdf", "retrieve_documents"}
        /\ HealthySucceeds)
        => last.outcome = "ok"

\* C7: all vectors of a store (the current one and every saved one) have the
\* store's dimension, also after an ingest mixing remote and fallback
\* vectors, and a query vector searched against the store has it too.
C7_OneDimensionPerStore ==
    /\ \A st \in {vectorstore} \cup {saved[n] : n \in Names} :
           st # NoStore =>
               \A i \in 1..Len(st.vectors) : Len(st.vectors[i]) = st.d
    /\ (last.op = "retrieve_documents" /\ last.outcome = "ok")
           => Len(LastQueryVector) = vectorstore.d

\* An ingest in which one remote request failed and the other did not built
\* the current store, and a query was answered from it.
C7_Witness ==
    /\ ~use_mock
    /\ vectorstore # NoStore
    /\ \E i, j \in 1..Len(vectorstore.vectors) :
           /\ vectorstore.vectors[i]
                 = RemoteEmbedding(vectorstore.docs[i].page_content,
                                   "retrieval_document")
           /\ vectorstore.vectors[j]
                 = mock_embedding(vectorstore.docs[j].page_content)
           /\ vectorstore.vectors[j]
                 # RemoteEmbedding(vectorstore.docs[j].page_content,
                                   "retrieval_document")
    /\ last.op = "retrieve_documents"
    /\ last.outcome = "ok"

\* C8: when the remote request fails, embed_text and embed_query return the
\* vector the mock variant returns for the same text: the mock embedding of
\* the text at the configured dimension.
C8_FallbackEquivalence ==
    \A s \in EmbedSites :
        (use_mock \/ SiteFailed(s)) =>
            /\ ~SiteResult(s).raised
            /\ SiteResult(s).vec = mock_embedding(SiteText(s))
            /\ Len(SiteResult(s).vec) = mock_dim

\* A failed embed_query and a failed embed_text of the remote variant.
C8_Witness ==
    /\ ~use_mock
    /\ \E s \in EmbedSites :
           embedLog[s[1]].fn = "embed_query" /\ SiteFailed(s)
    /\ \E s \in EmbedSites :
           embedLog[s[1]].fn = "embed_text" /\ SiteFailed(s)

\* The embeddings made so far that computed the fallback vector.
FallbackSites == {s \in EmbedSites : SiteResult(s).fallback}

\* C9: any two fallback computations for the same text return the same
\* vector, whatever calls were made before or between them.
C9_FallbackDeterministic ==
    \A s, t \in FallbackSites :
        SiteText(s) = SiteText(t) => SiteResult(s).vec = SiteResult(t).vec

\* The fallback of one text was computed in the first and in the third call,
\* with a call for another text between them.
C9_Witness ==
    /\ Len(embedLog) = 3
    /\ <<1, 1>> \in FallbackSites
    /\ <<3, 1>> \in FallbackSites
    /\ SiteText(<<1, 1>>) = SiteText(<<3, 1>>)
    /\ embedLog[2].texts # <<>>
    /\ SiteText(<<2, 1>>) # SiteText(<<1, 1>>)

\* C10: a retrieve with k >= 1 whose query vector has the store's dimension
\* succeeds and returns exactly min(n, k) results on a store of n vectors,
\* every one a document of the store (no padding).
C10_KBounding ==
    (/\ last.op = "retrieve_documents"
     /\ vectorstore # NoStore
     /\ Len(LastQueryVector) = vectorstore.d)
        => /\ last.outcome = "ok"
           /\ Len(last.results)
                 = Min(Len(vectorstore.vectors), last.k)
           /\ \A i \in 1..Len(last.results) :
                  \E j \in 1..Len(vectorstore.docs) :
                      last.results[i].content = vectorstore.docs[j].page_content

\* A retrieve with k = 4 on a store of 2 vectors returned 2 results.
C10_Witness ==
    /\ last.op = "retrieve_documents"
    /\ last.outcome = "ok"
    /\ last.k = TOP_K_RESULTS
    /\ Len(vectorstore.vectors) = 2
    /\ Len(last.results) = 2

\* The rows of the current store a list of results can have been read from:
\* result i is the document of row rows[i], no row is used twice, the rows
\* come in order of growing distance to q, and no row left out is nearer
\* than the last one returned.
NearestFirstRows(results, q) ==
    {rows \in [1..Len(results) -> 1..Len(vectorstore.vectors)] :
        /\ \A i, j \in 1..Len(results) : rows[i] = rows[j] => i = j
        /\ \A i \in 1..Len(results) :
              /\ results[i].content = vectorstore.docs[rows[i]].page_content
              /\ results[i].source = vectorstore.docs[rows[i]].source
              /\ results[i].page = vectorstore.docs[rows[i]].page
        /\ \A i \in 1..(Len(results) - 1) :
              L2(vectorstore.vectors[rows[i]], q)
                 <= L2(vectorstore.vectors[rows[i + 1]], q)
        /\ \A r \in 1..Len(vectorstore.vectors) :
              (\A i \in 1..Len(results) : rows[i] # r)
                 => \A i \in 1..Len(results) :
                        L2(vectorstore.vectors[rows[i]], q)
                           <= L2(vectorstore.vectors[r], q)}

\* C11: the results of a successful retrieve are numbered 1..m in the order
\* returned (result i has rank i), they come nearest first, and each carries
\* the text, source and page of the chunk of the store it was found in.
C11_RankedNearestFirst ==
    (last.op = "retrieve_documents" /\ last.outcome = "ok")
        => /\ \A i \in 1..Len(last.results) : last.results[i].rank = i
           /\ NearestFirstRows(last.results, LastQueryVector) # {}

\* A retrieve returned two results at different distances from the query.
C11_Witness ==
    /\ last.op = "retrieve_documents"
    /\ last.outcome = "ok"
    /\ Len(last.results) = 2
    /\ last.results[1].content # last.results[2].content
    /\ \E i, j \in 1..Len(vectorstore.vectors) :
           L2(vectorstore.vectors[i], LastQueryVector)
              < L2(vectorstore.vectors[j], LastQueryVector)

\* The files of a collection were both written whole.
Readable(files) == files # NoDir /\ LoadError(files) = None

\* C12: loading a collection whose index.faiss holds another number of
\* vectors than its index.pkl holds documents is rejected, and the loaded
\* store does not become current.
C12_MismatchRejected ==
    (/\ last.op = "load_vectorstore"
     /\ Readable(disk[last.name])
     /\ disk[last.name].faiss.ntotal # Len(disk[last.name].pkl.docs))
        => /\ last.outcome # "ok"
           /\ ~(origin.kind = "load" /\ origin.name = last.name)

\* A store is complete: it is what one ingest of one file builds, the
\* documents the chunks of the file, row i an embedding of chunk i.
CompleteStore(store) ==
    \E path \in Paths :
        /\ store.docs = ChunksOf[path]
        /\ store.docs # <<>>
        /\ Len(store.vectors) = Len(store.docs)
        /\ \A i \in 1..Len(store.docs) :
              store.vectors[i]
                 \in {mock_embedding(store.docs[i].page_content),
                      RemoteEmbedding(store.docs[i].page_content,
                                      "retrieval_document")}

\* C13: whatever point of a save the process died at, a later load of the
\* collection either fails or makes a complete collection current, never a
\* mixture of two saves.
C13_SaveAtomic ==
    (last.op = "load_vectorstore" /\ last.outcome = "ok")
        => CompleteStore(vectorstore)

\* C15: an ingest of a readable file whose pages yield no chunks does not
\* fail: it completes as an ingest with nothing to index.
C15_EmptyIngestNotError ==
    (/\ last.op = "process_pdf"
     /\ load_pdf(last.path).ok
     /\ ChunksOf[last.path] = <<>>)
        => last.outcome = "ok"

\* The step was a successful ingest or a successful load.
StoreMade == last'.op \in {"process_pdf", "load_vectorstore"} /\ last'.outcome = "ok"

\* C16: the slot of a process starts empty; within the process only a
\* successful ingest or a successful load changes which store is current
\* (a retrieve, a failed operation and the save inside an ingest do not),
\* and a slot that holds a store is never emptied again.
C16_SlotStateMachine ==
    /\ vectorstore = NoStore
    /\ [][last'.op # "restart"
            => /\ (vectorstore' # vectorstore \/ origin' # origin) => StoreMade
               /\ StoreMade => (vectorstore' # NoStore /\ origin'.kind # "empty")
               /\ vectorstore # NoStore => vectorstore' # NoStore]_vars

\* An ingest failed in a process whose current store was loaded from disk,
\* and the loaded store is still current.
C16_Witness ==
    /\ last.op = "process_pdf"
    /\ last.outcome \notin {"ok", "FileNotFoundError", "PdfReadError"}
    /\ origin.kind = "load"
    /\ vectorstore # NoStore

\* C17: after a successful ingest the current store holds one vector per
\* chunk of the file, row i is the embedding of the text of chunk i (the
\* remote vector, or the fallback vector where the request fell back), the
\* document of row i is chunk i, and the chunk count reported is the number
\* of chunks.
C17_ChunkVectorAlignment ==
    (last.op = "process_pdf" /\ last.outcome = "ok")
        => /\ Len(vectorstore.vectors) = Len(ChunksOf[last.path])
           /\ vectorstore.docs = ChunksOf[last.path]
           /\ last.num_chunks = Len(ChunksOf[last.path])
           /\ \A i \in 1..Len(ChunksOf[last.path]) :
                  vectorstore.vectors[i]
                     = IF last.fallbacks[i]
                       THEN mock_embedding(ChunksOf[last.path][i].page_content)
                       ELSE RemoteEmbedding(ChunksOf[last.path][i].page_content,
                                            "retrieval_document")

\* An ingest of a file of two chunks with different texts succeeded, the
\* two rows of the store being different vectors.
C17_Witness ==
    /\ last.op = "process_pdf"
    /\ last.outcome = "ok"
    /\ last.num_chunks = 2
    /\ ChunksOf[last.path][1].page_content # ChunksOf[last.path][2].page_content
    /\ vectorstore.vectors[1] # vectorstore.vectors[2]

\* C19: a save under a name that is already saved overwrites it: after a
\* second successful ingest under the name, a load of the name makes
\* exactly the store of the second ingest current, with no document of the
\* collection it replaced.
C19_SaveOverwrites ==
    (/\ last.op = "load_vectorstore"
     /\ last.outcome = "ok"
     /\ history.name = last.name
     /\ history.replaced # None)
        => /\ vectorstore = saved[last.name]
           /\ Len(vectorstore.vectors) = Len(vectorstore.docs)
           /\ \E path \in Paths : vectorstore.docs = ChunksOf[path]

\* A collection saved from a.pdf (two chunks) was saved again from b.pdf
\* (one chunk) and then loaded: the store loaded holds the chunk of b.pdf.
C19_Witness ==
    /\ last.op = "load_vectorstore"
    /\ last.outcome = "ok"
    /\ history.name = last.name
    /\ history.replaced = "a.pdf"
    /\ vectorstore.docs = ChunksOf["b.pdf"]
    /\ Len(vectorstore.vectors) = 1

\* C20: with the configured separators (paragraph, line, word, character)
\* every chunk of every page text is at most CHUNK_SIZE characters long.
C20_ChunkSizeBound ==
    probe.done
        => \A i \in 1..Len(probe.chunks) :
               Len(probe.chunks[i].page_content) <= CHUNK_SIZE

\* A page with a word longer than the chunk size was split into several
\* chunks, one of them of exactly the chunk size.
C20_Witness ==
    /\ probe.done
    /\ Len(probe.text) > CHUNK_SIZE
    /\ \E i \in 1..(Len(probe.text) - CHUNK_SIZE) :
           \A j \in i..(i + CHUNK_SIZE) : probe.text[j] \notin Whitespace
    /\ Len(probe.chunks) >= 2
    /\ \E i \in 1..Len(probe.chunks) :
           Len(probe.chunks[i].page_content) = CHUNK_SIZE

\* C18: the running server has one pipeline and so one current store, which
\* the upload endpoint, the retrieval service and the two generators share:
\* main.py, the retrieval service and the generators all refer to the same
\* pipeline object, and the store a request looks at and searches is the
\* one the latest successful ingest or load before it made current.
C18_OneSharedStore ==
    wiring.step = StartupStatements
        => /\ Len(wiring.pipelines) = 1
           /\ \A by \in Requesters :
                  PipelineOf(ServiceOf(by)) = wiring.main_rag_pipeline
           /\ wiring.seen.by # None
                  => /\ wiring.seen.gate = wiring.seen.latest
                     /\ wiring.seen.store = wiring.seen.latest

\* The quiz generator retrieved from the store an upload made current.
C18_Witness ==
    /\ wiring.seen.by = "quiz"
    /\ wiring.seen.store # NoStore
    /\ wiring.seen.store = wiring.seen.latest
    /\ wiring.seen.store.docs = ChunksOf["a.pdf"]

\* The retrieves that have returned or raised.
RetrievesDone ==
    {t \in Workers : At(t, "retrieve_documents", "done")}

\* C14: a retrieve whose steps interleave with those of an ingest or a load
\* never finds the slot in the middle of a replacement: it either raises
\* the no-store error, the slot being empty when it looked, or it searches
\* one complete store (the one current before some assignment or the one
\* current after it), and every result is a document of that store.
C14_NoTornSlot ==
    \A t \in RetrievesDone :
        \/ /\ threads.req[t].outcome = "ValueError"
           /\ threads.req[t].gate = NoStore
           /\ threads.req[t].results = <<>>
        \/ /\ threads.req[t].outcome \notin {"ValueError", "AttributeError"}
           /\ CompleteStore(threads.req[t].searched)
           /\ \A i \in 1..Len(threads.req[t].results) :
                  \E j \in 1..Len(threads.req[t].searched.docs) :
                      /\ threads.req[t].results[i].content
                            = threads.req[t].searched.docs[j].page_content
                      /\ threads.req[t].results[i].source
                            = threads.req[t].searched.docs[j].source
                      /\ threads.req[t].results[i].page
                            = threads.req[t].searched.docs[j].page

\* Between the check and the search of a retrieve an ingest of another file
\* replaced the current store; the retrieve returned the documents of the
\* new store.
C14_Witness ==
    \E t \in RetrievesDone :
        /\ threads.req[t].outcome = "ok"
        /\ threads.req[t].gate # NoStore
        /\ threads.req[t].gate.docs # threads.req[t].searched.docs
        /\ Len(threads.req[t].results) = Len(threads.req[t].searched.docs)
        /\ threads.req[t].results # <<>>

\* The text occurs in the page text at position s.
OccursAt(text, page_text, s) ==
    /\ s + Len(text) - 1 <= Len(page_text)
    /\ \A j \in 1..Len(text) : page_text[s + j - 1] = text[j]

\* C21: every chunk carries the source and the page number of one page of
\* the document and its text is a piece of the text of that page alone, so
\* no chunk spans two pages; the chunks come in the order of their pages.
C21_ChunkOfOneBlock ==
    probe.done
        => /\ \A i \in 1..Len(probe.chunks) :
                  \E p \in 1..Len(probe.pages) :
                      /\ probe.chunks[i].page = p - 1
                      /\ probe.chunks[i].source = "p.pdf"
                      /\ \E s \in 1..Len(probe.pages[p]) :
                             OccursAt(probe.chunks[i].page_content,
                                      probe.pages[p], s)
           /\ \A i \in 1..(Len(probe.chunks) - 1) :
                  probe.chunks[i].page <= probe.chunks[i + 1].page

\* A document of two pages was chunked, the first page into two chunks and
\* the second into two chunks.
C21_Witness ==
    /\ probe.done
    /\ Len(probe.pages) = 2
    /\ Len(probe.chunks) = 4
    /\ probe.chunks[2].page = 0
    /\ probe.chunks[3].page = 1

\* The chunks made of page p of the document, in order.
ChunksOfPage(p) == SelectSeq(probe.chunks, LAMBDA c : c.page = p - 1)

\* The pages of the document shorter than the chunk size.
ShortPages == {p \in 1..Len(probe.pages) : Len(probe.pages[p]) < CHUNK_SIZE}

Blank(text) == \A j \in 1..Len(text) : text[j] \in Whitespace

\* C22 as stated: every page shorter than the chunk size yields exactly one
\* chunk, pages of whitespace only included.
C22_ShortBlockOneChunk ==
    probe.done => \A p \in ShortPages : Len(ChunksOfPage(p)) = 1

\* C22, amended: a page shorter than the chunk size that has a character
\* other than whitespace yields exactly one chunk, its text with the
\* whitespace at both ends removed; a page that is empty or whitespace only
\* yields no chunk.
C22_ShortBlockOneStrippedChunk ==
    probe.done
        => \A p \in ShortPages :
               IF Blank(probe.pages[p])
               THEN ChunksOfPage(p) = <<>>
               ELSE /\ Len(ChunksOfPage(p)) = 1
                    /\ ChunksOfPage(p)[1].page_content = Strip(probe.pages[p])

\* A short page whose text begins with a space yielded one chunk, the text
\* without that space.
C22_Witness ==
    /\ probe.done
    /\ 1 \in ShortPages
    /\ probe.text # <<>>
    /\ Head(probe.text) = SP
    /\ Len(ChunksOfPage(1)) = 1
    /\ ChunksOfPage(1)[1].page_content = Tail(probe.text)


\* Whether the chunks from the i-th on can be laid over the text after
\* position e, each one at a place where it occurs and ending later than the
\* one before.  With exact set, a chunk starts no later than the first
\* position not yet covered and the last chunk ends at the end of the text;
\* otherwise the positions left between and after the chunks are whitespace.
RECURSIVE CoversFrom(_, _, _, _, _)
CoversFrom(text, chunks, i, e, exact) ==
    IF i > Len(chunks)
    THEN IF exact THEN e = Len(text)
         ELSE \A j \in (e + 1)..Len(text) : text[j] \in Whitespace
    ELSE LET c == chunks[i].page_content
         IN  \E s \in 1..Len(text) :
                 /\ OccursAt(c, text, s)
                 /\ s + Len(c) - 1 > e
                 /\ IF exact THEN s <= e + 1
                    ELSE \A j \in (e + 1)..(s - 1) : text[j] \in Whitespace
                 /\ CoversFrom(text, chunks, i + 1, s + Len(c) - 1, exact)

\* C23 as stated: the chunks of every page, overlaps removed, give back the
\* page's text with no character missing.
C23_ExactReconstruction ==
    probe.done =>
        \A p \in 1..Len(probe.pages) :
            CoversFrom(probe.pages[p], ChunksOfPage(p), 1, 0, TRUE)

\* C23: the chunks of every page are pieces of the page's text at advancing
\* positions, and every character of the page that lies in no chunk is
\* whitespace.
C23_CoverageUpToWhitespace ==
    probe.done =>
        \A p \in 1..Len(probe.pages) :
            CoversFrom(probe.pages[p], ChunksOfPage(p), 1, 0, FALSE)

\* A page of two words was cut at the space between them, which is in
\* neither chunk.
C23_Witness ==
    /\ probe.done
    /\ probe.text = <<"a", "b", SP, "a", "b">>
    /\ Len(ChunksOfPage(1)) = 2
    /\ ChunksOfPage(1)[1].page_content = <<"a", "b">>
    /\ ChunksOfPage(1)[2].page_content = <<"a", "b">>


Digits(text) == \A j \in 1..Len(text) : \E d \in 1..10 : DigitChars[d] = text[j]

\* The number a run of decimal digits denotes.
RECURSIVE Value(_)
Value(text) ==
    IF text = <<>> THEN 0
    ELSE 10 * Value(SubSeq(text, 1, Len(text) - 1))
         + (CHOOSE d \in 0..9 : DigitChars[d + 1] = text[Len(text)])

\* Whether the text has, at position pos, a run of n digits denoting number.
NumberAt(text, pos, n, number) ==
    /\ pos + n - 1 <= Len(text)
    /\ Digits(SubSeq(text, pos, pos + n - 1))
    /\ Value(SubSeq(text, pos, pos + n - 1)) = number

\* Whether the text from position pos on reads as the segments of the
\* results from the i-th on, in order and with nothing else: the header with
\* the result's rank and page, its content, a line break, and a line break
\* between two segments.
RECURSIVE ReadsBack(_, _, _, _)
ReadsBack(text, pos, documents, i) ==
    IF i > Len(documents)
    THEN pos = Len(text) + 1
    ELSE \E n \in 1..2, m \in 1..2 :
           LET doc == documents[i]
               rankAt == pos + Len(KaynakOpen)
               pageAt == rankAt + n + Len(SayfaMid)
               contentAt == pageAt + m + Len(HeaderClose)
               endAt == contentAt + Len(doc.content)
           IN  /\ OccursAt(KaynakOpen, text, pos)
               /\ NumberAt(text, rankAt, n, doc.rank)
               /\ OccursAt(SayfaMid, text, rankAt + n)
               /\ NumberAt(text, pageAt, m, doc.page)
               /\ OccursAt(HeaderClose, text, pageAt + m)
               /\ OccursAt(doc.content, text, contentAt)
               /\ OccursAt(<<NL>>, text, endAt)
               /\ IF i = Len(documents)
                  THEN endAt = Len(text)
                  ELSE /\ OccursAt(<<NL>>, text, endAt + 1)
                       /\ ReadsBack(text, endAt + 2, documents, i + 1)

\* C24: the context of a result list is one segment per result, in the
\* list's order, each headed by the result's rank and page and holding its
\* text, with no result dropped, doubled or moved; the context of the empty
\* list is the empty string.
C24_ContextKeepsOrder ==
    probe.done =>
        /\ ReadsBack(probe.context, 1, probe.documents, 1)
        /\ probe.documents = <<>> => probe.context = <<>>

\* Three results were formatted, the first and the last the same result and
\* the ranks not ascending.
C24_Witness ==
    /\ probe.done
    /\ Len(probe.documents) = 3
    /\ probe.documents[1] = probe.documents[3]
    /\ probe.documents[1].rank = 2
    /\ probe.documents[2].rank = 1
    /\ probe.documents[2].page = 11
    /\ probe.context # <<>>


\* C25: no embedding retries.  Every single embedding issued at most one
\* remote request, none in mock mode; one whose request failed still
\* returned, with the fallback vector of its text, and raised nothing, however
\* many failures came before it.
C25_NoRetry ==
    \A s \in EmbedSites :
        /\ Len(SiteResult(s).requests) <= 1
        /\ use_mock => SiteResult(s).requests = <<>>
        /\ SiteFailed(s) =>
              /\ Len(SiteResult(s).requests) = 1
              /\ ~SiteResult(s).raised
              /\ SiteResult(s).fallback
              /\ SiteResult(s).vec = mock_embedding(SiteText(s))

\* Three calls in a row failed at the backend, an embed_text and an
\* embed_query among them, the last two for the same text.
C25_Witness ==
    /\ Len(embedLog) = MaxCalls
    /\ \A s \in EmbedSites : SiteFailed(s)
    /\ embedLog[1].fn = "embed_text"
    /\ embedLog[2].fn = "embed_query"
    /\ embedLog[3].fn = "embed_query"
    /\ embedLog[2].texts = embedLog[3].texts


\* The calls of embed_documents and of embed_text made so far.
BatchCalls == {c \in 1..Len(embedLog) : embedLog[c].fn = "embed_documents"}
SingleCalls == {c \in 1..Len(embedLog) : embedLog[c].fn = "embed_text"}

\* C26: embed_documents is pointwise the single call.  A batch returns as many
\* vectors as it got texts, the i-th being the document-intent embedding of
\* the i-th text: the backend's vector where that text's request succeeded,
\* the text's fallback vector where it failed or in mock mode, the same as any
\* embed_text call of that text with that backend outcome returned.
C26_BatchPointwise ==
    \A c \in BatchCalls :
        /\ Len(embedLog[c].results) = Len(embedLog[c].texts)
        /\ \A i \in 1..Len(embedLog[c].texts) :
              LET text == embedLog[c].texts[i]
                  outcome == embedLog[c].outcomes[i]
                  result == embedLog[c].results[i]
              IN  /\ ~result.raised
                  /\ result.vec =
                        IF use_mock \/ outcome # "ok" THEN mock_embedding(text)
                        ELSE RemoteEmbedding(text, "retrieval_document")
                  /\ \A d \in SingleCalls :
                        (embedLog[d].texts[1] = text
                            /\ embedLog[d].outcomes[1] = outcome)
                        => embedLog[d].results[1] = result

\* A batch of two texts was embedded, the first falling back and the second
\* not, after single calls of both texts with the same backend outcomes.
C26_Witness ==
    /\ ~use_mock
    /\ Len(embedLog) = 3
    /\ embedLog[3].fn = "embed_documents"
    /\ Len(embedLog[3].texts) = 2
    /\ embedLog[3].results[1].fallback
    /\ ~embedLog[3].results[2].fallback
    /\ \A i \in 1..2 :
          /\ embedLog[i].fn = "embed_text"
          /\ embedLog[i].texts[1] = embedLog[3].texts[i]
          /\ embedLog[i].outcomes[1] = embedLog[3].outcomes[i]


\* C27: the intent of an embedding request is fixed by the operation.  Every
\* request an ingest issued asked for a document embedding, one per chunk
\* outside mock mode; every request a retrieve issued asked for a query
\* embedding, one for the query outside mock mode when a store is current.
C27_IntentByOperation ==
    /\ last.op = "process_pdf" =>
          /\ \A j \in 1..Len(last.requests) :
                last.requests[j] = "retrieval_document"
          /\ (~use_mock /\ last.outcome = "ok")
                => Len(last.requests) = last.num_chunks
    /\ last.op = "retrieve_documents" =>
          /\ \A j \in 1..Len(last.requests) :
                last.requests[j] = "retrieval_query"
          /\ (~use_mock /\ last.outcome # "ValueError")
                => Len(last.requests) = 1

\* A retrieve issued its request against a store ingested in this process
\* with the backend in use.
C27_Witness ==
    /\ ~use_mock
    /\ origin.kind = "build"
    /\ last.op = "retrieve_documents"
    /\ last.outcome = "ok"
    /\ last.requests = <<"retrieval_query">>


\* C28: an ingest that fails, at reading the file, at the build or at the
\* save, leaves in the slot what the slot held before the call.
C28_FailedIngestKeepsSlot ==
    [][(last'.op = "process_pdf" /\ last'.outcome # "ok")
          => (vectorstore' = vectorstore /\ origin' = origin)]_vars

\* The save of an ingest raised half way, and the slot holds the store of
\* the file ingested before while the directory cannot be loaded.
C28_Witness ==
    /\ last.op = "process_pdf"
    /\ last.outcome = "OSError"
    /\ origin.kind = "build"
    /\ origin.path # last.path
    /\ vectorstore = saved[last.name]
    /\ LoadError(disk[last.name]) # None


\* Both requests are ingests that completed, under the same name.
BothIngested ==
    /\ \A t \in Workers :
          /\ threads.req[t].op = "process_pdf"
          /\ threads.req[t].pc = "done"
          /\ threads.req[t].outcome = "ok"
    /\ \A t, u \in Workers : threads.req[t].name = threads.req[u].name

\* C29: once two ingests under one name have both completed, in whichever
\* order the server ran them, the store in the slot is the store saved under
\* that name, the store one of the two built.
C29_MemoryDiskAgree ==
    BothIngested =>
        /\ Readable(disk[threads.req[1].name])
        /\ vectorstore = load_local(disk[threads.req[1].name])
        /\ \E t \in Workers : vectorstore = threads.req[t].store

\* Two ingests of different files under one name completed, and the slot
\* and the directory both hold the store one of them built.
C29_Witness ==
    /\ BothIngested
    /\ threads.req[1].path # threads.req[2].path
    /\ threads.req[1].store # threads.req[2].store
    /\ vectorstore = threads.req[1].store
    /\ disk[threads.req[1].name] = save_local(threads.req[1].store)


GeneratorOps ==
    {"generate_quiz", "generate_plan", "POST /generate-quiz", "POST /study-plan"}

\* C30: the generators are gated on the store.  A quiz or plan generation
\* with the slot empty ended in the no-store error (the generator's
\* ValueError, the endpoint's 400) and produced nothing, in mock-LLM mode as
\* in real mode; and only a generation that retrieved from the store
\* produced a quiz or plan.
C30_GeneratorsGated ==
    last.op \in GeneratorOps =>
        /\ vectorstore = NoStore =>
              /\ last.outcome \in {"ValueError", "HTTP 400"}
              /\ last.produced = None
              /\ last.requests = <<>>
        /\ last.produced # None =>
              /\ vectorstore # NoStore
              /\ last.outcome = "ok"
              /\ last.k = TOP_K_RESULTS * 2

\* In mock-LLM mode a quiz was asked of the generator in a restarted process,
\* with a collection saved on disk, and refused.
C30_Witness ==
    /\ probe.use_mock_llm
    /\ last.op = "generate_quiz"
    /\ vectorstore = NoStore
    /\ last.outcome = "ValueError"
    /\ last.produced = None
    /\ disk["default"] # NoDir

====
